---------------------------- MODULE Spec2Model ----------------------------
(***************************************************************************)
(* Model of the comprehensive video analysis service                       *)
(* (src/cloud-function-video-analysis/main.py): the HTTP entry point       *)
(* analyze_video, the fork-join orchestrator analyze_video_comprehensive,  *)
(* the three analysis branches and the score aggregation.                  *)
(*                                                                         *)
(* Python floats are modelled by exact rationals [n |-> .., d |-> ..] in   *)
(* lowest terms; np.std is the exact root when the variance is a square of *)
(* a rational and otherwise the root rounded down to 1/SqrtPrec.           *)
(* Text is modelled as sequences of one-character strings so that          *)
(* str.lower, str.strip and the regular expression \b are computed.        *)
(***************************************************************************)
EXTENDS Integers, Sequences, FiniteSets, TLC

VARIABLES
    request,      \* the HTTP request handed to analyze_video
    pc,           \* position of analyze_video / analyze_video_comprehensive
    sent,         \* responses returned to the caller, in order
    recognition,  \* what the transcription service holds for this video
    video,        \* the stored video: frame rate and per-frame detections
    sp,           \* local state of the analyze_speech task
    fa,           \* local state of the analyze_facial_expressions task
    co,           \* local state of the analyze_confidence_metrics task
    tempFiles,    \* temporary files that exist, name -> content
    joined,       \* speech_analysis, facial_analysis, confidence_analysis
    overall,      \* value of calculate_overall_score
    audio,        \* value of process_audio_with_speech_api (audio service)
    call          \* a helper method called on its own: arguments and value

vars == <<request, pc, sent, recognition, video, sp, fa, co, tempFiles,
          joined, overall, audio, call>>

---------------------------------------------------------------------------
(* Bounds of the model *)

MaxWords == 12
MaxFrames == 2
ScoreGrid == 20

---------------------------------------------------------------------------
(* Exact arithmetic standing for Python float arithmetic *)

SqrtPrec == 100

\* Arguments are bound once (as the single element of a set) so that each
\* operand expression is evaluated one time, like a Python operand.

AbsInt(x) == IF x < 0 THEN -x ELSE x

RECURSIVE GCD(_, _)
GCD(a, b) == IF b = 0 THEN a ELSE GCD(b, a % b)

Rat(n0, d0) ==
    CHOOSE r \in { LET s == IF d < 0 THEN -1 ELSE 1
                       g == GCD(AbsInt(n), AbsInt(d))
                   IN  [n |-> (s * n) \div g, d |-> (s * d) \div g] :
                   n \in {n0}, d \in {d0} } : TRUE

Zero == [n |-> 0, d |-> 1]
One == [n |-> 1, d |-> 1]
Whole(k) == [n |-> k, d |-> 1]

RAdd(x0, y0) ==
    CHOOSE r \in { LET g == GCD(x.d, y.d)
                   IN  Rat(x.n * (y.d \div g) + y.n * (x.d \div g),
                           (x.d \div g) * y.d) :
                   x \in {x0}, y \in {y0} } : TRUE

RNeg(x0) == CHOOSE r \in { [n |-> -x.n, d |-> x.d] : x \in {x0} } : TRUE

RSub(x, y) == RAdd(x, RNeg(y))

RMul(x0, y0) ==
    CHOOSE r \in { LET g1 == GCD(AbsInt(x.n), y.d)
                       g2 == GCD(AbsInt(y.n), x.d)
                       h1 == IF g1 = 0 THEN 1 ELSE g1
                       h2 == IF g2 = 0 THEN 1 ELSE g2
                   IN  Rat((x.n \div h1) * (y.n \div h2),
                           (x.d \div h2) * (y.d \div h1)) :
                   x \in {x0}, y \in {y0} } : TRUE

RInv(y0) == CHOOSE r \in { Rat(y.d, y.n) : y \in {y0} } : TRUE

RDiv(x, y) == RMul(x, RInv(y))

RLe(x0, y0) == \E x \in {x0}, y \in {y0} : x.n * y.d <= y.n * x.d
RLt(x0, y0) == \E x \in {x0}, y \in {y0} : x.n * y.d < y.n * x.d
RGe(x, y) == RLe(y, x)
RGt(x, y) == RLt(y, x)

RMax(x0, y0) ==
    CHOOSE r \in { IF RLt(x, y) THEN y ELSE x : x \in {x0}, y \in {y0} } : TRUE

RMin(x0, y0) ==
    CHOOSE r \in { IF RLt(y, x) THEN y ELSE x : x \in {x0}, y \in {y0} } : TRUE

RAbs(x0) == CHOOSE r \in { [n |-> AbsInt(x.n), d |-> x.d] : x \in {x0} } : TRUE

RECURSIVE RSumFrom(_, _)
RSumFrom(s, i) == IF i > Len(s) THEN Zero ELSE RAdd(s[i], RSumFrom(s, i + 1))

RSum(s0) == CHOOSE r \in { RSumFrom(s, 1) : s \in {s0} } : TRUE

RECURSIVE RMaxFrom(_, _)
RMaxFrom(s, i) == IF i = Len(s) THEN s[i] ELSE RMax(s[i], RMaxFrom(s, i + 1))

RMaxOf(s0) == CHOOSE r \in { RMaxFrom(s, 1) : s \in {s0} } : TRUE

RECURSIVE RMinFrom(_, _)
RMinFrom(s, i) == IF i = Len(s) THEN s[i] ELSE RMin(s[i], RMinFrom(s, i + 1))

RMinOf(s0) == CHOOSE r \in { RMinFrom(s, 1) : s \in {s0} } : TRUE

RMean(s0) == CHOOSE r \in { RDiv(RSum(s), Whole(Len(s))) : s \in {s0} } : TRUE

RECURSIVE ISqrtIn(_, _, _)
ISqrtIn(n, lo, hi) ==
    IF lo >= hi THEN lo
    ELSE IF ((lo + hi + 1) \div 2) * ((lo + hi + 1) \div 2) <= n
    THEN ISqrtIn(n, (lo + hi + 1) \div 2, hi)
    ELSE ISqrtIn(n, lo, ((lo + hi + 1) \div 2) - 1)

ISqrt(n0) ==
    CHOOSE r \in { ISqrtIn(n, 0, IF n < 46340 THEN n ELSE 46340) :
                   n \in {n0} } : TRUE

RSqrt(x0) ==
    CHOOSE r \in
        { IF ISqrt(x.n) * ISqrt(x.n) = x.n /\ ISqrt(x.d) * ISqrt(x.d) = x.d
          THEN Rat(ISqrt(x.n), ISqrt(x.d))
          ELSE Rat(ISqrt((x.n * SqrtPrec * SqrtPrec) \div x.d), SqrtPrec) :
          x \in {x0} } : TRUE

SquaredDeviations(values, m) ==
    [i \in 1..Len(values) |-> RMul(RSub(values[i], m), RSub(values[i], m))]

np_std(values0) ==
    CHOOSE r \in { RSqrt(RMean(SquaredDeviations(values, m))) :
                   values \in {values0}, m \in {RMean(values0)} } : TRUE

---------------------------------------------------------------------------
(* Text: a string is a sequence of one-character strings *)

UpperChars == <<"A", "B", "C", "D", "E", "F", "G", "H", "I", "J", "K", "L", "M", "N", "O", "P", "Q", "R", "S", "T", "U", "V", "W", "X", "Y", "Z">>
LowerChars == <<"a", "b", "c", "d", "e", "f", "g", "h", "i", "j", "k", "l", "m", "n", "o", "p", "q", "r", "s", "t", "u", "v", "w", "x", "y", "z">>
Punctuation == {".", ",", "!", "?"}

LowerChar(c) ==
    IF \E i \in 1..Len(UpperChars) : UpperChars[i] = c
    THEN LowerChars[CHOOSE i \in 1..Len(UpperChars) : UpperChars[i] = c]
    ELSE c

str_lower(w) == [i \in 1..Len(w) |-> LowerChar(w[i])]

RECURSIVE str_lstrip(_, _)
str_lstrip(w, cs) ==
    IF w # <<>> /\ Head(w) \in cs THEN str_lstrip(Tail(w), cs) ELSE w

RECURSIVE str_rstrip(_, _)
str_rstrip(w, cs) ==
    IF w # <<>> /\ w[Len(w)] \in cs
    THEN str_rstrip(SubSeq(w, 1, Len(w) - 1), cs)
    ELSE w

str_strip(w, cs) == str_rstrip(str_lstrip(w, cs), cs)

RECURSIVE str_join(_)
str_join(parts) ==
    IF parts = <<>> THEN <<>>
    ELSE IF Len(parts) = 1 THEN parts[1]
    ELSE parts[1] \o <<" ">> \o str_join(Tail(parts))

InList(x, list) == \E i \in 1..Len(list) : list[i] = x

FILLER_WORDS ==
    << <<"u", "m">>,
       <<"u", "h">>,
       <<"a", "h">>,
       <<"l", "i", "k", "e">>,
       <<"y", "o", "u", " ", "k", "n", "o", "w">>,
       <<"s", "o">>,
       <<"w", "e", "l", "l">>,
       <<"a", "c", "t", "u", "a", "l", "l", "y">>,
       <<"b", "a", "s", "i", "c", "a", "l", "l", "y">>,
       <<"l", "i", "t", "e", "r", "a", "l", "l", "y">> >>

---------------------------------------------------------------------------
(* What the transcription service may return: recognised words with their  *)
(* time offsets (whole seconds), as the recogniser spells them              *)

Vocab ==
    << <<"I">>,
       <<"l", "i", "k", "e", "d">>,
       <<"i", "t">>,
       <<"L", "i", "k", "e">>,
       <<"L", "I", "K", "E", ",">>,
       <<"u", "m">>,
       <<"U", "m", ".">>,
       <<"a", "l", "i", "k", "e">>,
       <<"y", "o", "u">>,
       <<"k", "n", "o", "w">> >>

MaxDur == 1
MaxStep == 1

StartOf(i, n, step) == IF step >= 0 THEN (i - 1) * step ELSE (i - n) * step

WordInfo(i, n, off, dur, step) ==
    [word |-> Vocab[((off + i - 1) % Len(Vocab)) + 1],
     start_time |-> StartOf(i, n, step),
     end_time |-> StartOf(i, n, step) + dur]

Recognized(n, off, dur, step) ==
    IF n = 0 THEN <<>>
    ELSE LET ws == [i \in 1..n |-> WordInfo(i, n, off, dur, step)]
         IN  << [transcript |-> str_join([i \in 1..n |-> ws[i].word]),
                 words |-> ws] >>

Recognitions(maxn) ==
    { Recognized(n, off, dur, step) :
        n \in 0..maxn, off \in 0..(Len(Vocab) - 1),
        dur \in 0..MaxDur, step \in (-1)..MaxStep }

\* the response for the eight words "um so I think uh I did well", one
\* second each
ScenarioWords ==
    << <<"u", "m">>, <<"s", "o">>, <<"I">>, <<"t", "h", "i", "n", "k">>,
       <<"u", "h">>, <<"I">>, <<"d", "i", "d">>, <<"w", "e", "l", "l">> >>

ScenarioRecognition ==
    << [transcript |-> str_join(ScenarioWords),
        words |-> [i \in 1..Len(ScenarioWords) |->
                      [word |-> ScenarioWords[i],
                       start_time |-> i - 1, end_time |-> i]]] >>

RECURSIVE AllWords(_)
AllWords(results) ==
    IF results = <<>> THEN <<>>
    ELSE Head(results).words \o AllWords(Tail(results))

---------------------------------------------------------------------------
(* Speech metrics (VideoAnalysisService.analyze_speech and its helpers) *)

window_size == 10
ideal_wpm == 155

Pending == [pending |-> TRUE]
ErrorMarker(msg) == [error |-> msg]

\* mutation: the word is stripped but not lower-cased
NormalizeWordKeepCase(raw) == str_strip(raw, Punctuation)

\* the loop body's normalisation of a recognised word
NormalizeWord(raw) == str_strip(str_lower(raw), Punctuation)

IsFillerWord(word) == InList(word, FILLER_WORDS)

WordEntry(word_info) ==
    [word |-> NormalizeWord(word_info.word),
     start_time |-> word_info.start_time,
     end_time |-> word_info.end_time,
     duration |-> word_info.end_time - word_info.start_time]

PacingThreshold == 10

\* mutation: a window's span ends at the start of its last word
WindowWpmToLastStart(word_timestamps, i) ==
    LET duration == word_timestamps[i + window_size - 1].start_time
                    - word_timestamps[i].start_time
    IN  IF duration > 0 THEN RMul(Rat(window_size, duration), Whole(60))
        ELSE Zero

WindowWpm(word_timestamps, i) ==
    LET duration == word_timestamps[i + window_size - 1].end_time
                    - word_timestamps[i].start_time
    IN  IF duration > 0 THEN RMul(Rat(window_size, duration), Whole(60))
        ELSE Zero

\* mutation: numeric fields of zero in place of the insufficient-data marker
analyze_pacing_variations_zeroed(word_timestamps) ==
    [average_wpm |-> Zero, wpm_standard_deviation |-> Zero,
     pacing_consistency |-> Zero, wpm_timeline |-> <<>>]

analyze_pacing_variations(word_timestamps) ==
    IF Len(word_timestamps) < PacingThreshold
    THEN ErrorMarker("Insufficient data for pacing analysis")
    ELSE LET window_wpms ==
                 [i \in 1..(Len(word_timestamps) - window_size + 1) |->
                      WindowWpm(word_timestamps, i)]
             avg_wpm == RMean(window_wpms)
             wpm_std == np_std(window_wpms)
         IN  [average_wpm |-> avg_wpm,
              wpm_standard_deviation |-> wpm_std,
              pacing_consistency |->
                  IF RGt(avg_wpm, Zero)
                  THEN RMax(Zero, RSub(One, RDiv(wpm_std, avg_wpm)))
                  ELSE Zero,
              wpm_timeline |-> window_wpms]

RECURSIVE get_filler_word_details(_)
get_filler_word_details(word_timestamps) ==
    IF word_timestamps = <<>> THEN <<>>
    ELSE LET word_data == Head(word_timestamps)
             rest == get_filler_word_details(Tail(word_timestamps))
         IN  IF IsFillerWord(word_data.word)
             THEN << [word |-> word_data.word,
                      timestamp |-> word_data.start_time,
                      duration |-> word_data.duration] >> \o rest
             ELSE rest

\* mutation: the filler score is not floored at zero
calculate_clarity_score_unfloored(filler_percentage, words_per_minute) ==
    LET wpm_score ==
            RMax(Zero, RSub(One, RDiv(RAbs(RSub(words_per_minute,
                                                 Whole(ideal_wpm))),
                                      Whole(100))))
        filler_score == RSub(One, RDiv(filler_percentage, Whole(20)))
        clarity_score ==
            RAdd(RMul(wpm_score, Rat(6, 10)), RMul(filler_score, Rat(4, 10)))
    IN  RMin(One, RMax(Zero, clarity_score))

\* mutation: the pace score is not floored at 0
calculate_clarity_score_unfloored_pace(filler_percentage, words_per_minute) ==
    LET wpm_score ==
            RSub(One, RDiv(RAbs(RSub(words_per_minute, Whole(ideal_wpm))),
                           Whole(100)))
        filler_score ==
            RMax(Zero, RSub(One, RDiv(filler_percentage, Whole(20))))
        clarity_score ==
            RAdd(RMul(wpm_score, Rat(6, 10)), RMul(filler_score, Rat(4, 10)))
    IN  RMin(One, RMax(Zero, clarity_score))

calculate_clarity_score(filler_percentage, words_per_minute) ==
    LET wpm_score ==
            RMax(Zero, RSub(One, RDiv(RAbs(RSub(words_per_minute,
                                                 Whole(ideal_wpm))),
                                      Whole(100))))
        filler_score ==
            RMax(Zero, RSub(One, RDiv(filler_percentage, Whole(20))))
        clarity_score ==
            RAdd(RMul(wpm_score, Rat(6, 10)), RMul(filler_score, Rat(4, 10)))
    IN  RMin(One, RMax(Zero, clarity_score))

TotalDuration(word_timestamps) ==
    IF word_timestamps # <<>>
    THEN word_timestamps[Len(word_timestamps)].end_time
         - word_timestamps[1].start_time
    ELSE 0

\* mutation: the rate is computed for every non-zero duration
WordsPerMinuteUnguarded(total_words, total_duration) ==
    IF total_duration # 0
    THEN RMul(Rat(total_words, total_duration), Whole(60))
    ELSE Zero

\* line 129
WordsPerMinute(total_words, total_duration) ==
    IF total_duration > 0
    THEN RMul(Rat(total_words, total_duration), Whole(60))
    ELSE Zero

\* lines 126-148: the metrics computed once every word has been read
SpeechResult(transcript_parts, word_timestamps, total_words, filler_word_count) ==
    LET total_duration == TotalDuration(word_timestamps)
        words_per_minute == WordsPerMinute(total_words, total_duration)
        filler_percentage ==
            IF total_words > 0
            THEN RMul(Rat(filler_word_count, total_words), Whole(100))
            ELSE Zero
    IN  [transcript |-> str_join(transcript_parts),
         total_words |-> total_words,
         total_duration_seconds |-> total_duration,
         words_per_minute |-> words_per_minute,
         filler_words |->
             [count |-> filler_word_count,
              percentage |-> filler_percentage,
              details |-> get_filler_word_details(word_timestamps)],
         pacing_analysis |-> analyze_pacing_variations(word_timestamps),
         clarity_score |->
             calculate_clarity_score(filler_percentage, words_per_minute),
         word_timestamps |-> word_timestamps]

---------------------------------------------------------------------------
(* count_filler_words of src/cloud-function-analysis/main.py: the regular  *)
(* expression \bfiller\b counted over the lower-cased transcript            *)

ANALYSIS_FILLER_WORDS ==
    << <<"u", "m">>,
       <<"u", "h">>,
       <<"a", "h">>,
       <<"l", "i", "k", "e">>,
       <<"y", "o", "u", " ", "k", "n", "o", "w">>,
       <<"s", "o">>,
       <<"a", "c", "t", "u", "a", "l", "l", "y">>,
       <<"b", "a", "s", "i", "c", "a", "l", "l", "y">> >>

IsWordChar(c) ==
    \/ InList(c, UpperChars)
    \/ InList(c, LowerChars)
    \/ c \in {"0", "1", "2", "3", "4", "5", "6", "7", "8", "9", "_"}

WordCharAt(t, k) == k >= 1 /\ k <= Len(t) /\ IsWordChar(t[k])

\* \b between positions k and k + 1 of t
WordBoundary(t, k) == WordCharAt(t, k) # WordCharAt(t, k + 1)

PatternMatchesAt(t, f, p) ==
    /\ p + Len(f) - 1 <= Len(t)
    /\ SubSeq(t, p, p + Len(f) - 1) = f
    /\ WordBoundary(t, p - 1)
    /\ WordBoundary(t, p + Len(f) - 1)

RECURSIVE FindAllFrom(_, _, _)
FindAllFrom(t, f, p) ==
    IF p + Len(f) - 1 > Len(t) THEN 0
    ELSE IF PatternMatchesAt(t, f, p) THEN 1 + FindAllFrom(t, f, p + Len(f))
    ELSE FindAllFrom(t, f, p + 1)

RECURSIVE count_filler_words(_, _)
count_filler_words(transcript, filler_words) ==
    IF filler_words = <<>> THEN 0
    ELSE FindAllFrom(transcript, Head(filler_words), 1)
         + count_filler_words(transcript, Tail(filler_words))

RECURSIVE ConcatTranscripts(_)
ConcatTranscripts(results) ==
    IF results = <<>> THEN <<>>
    ELSE Head(results).transcript \o <<" ">> \o ConcatTranscripts(Tail(results))

\* process_audio_with_speech_api, lines 232-265
process_audio_with_speech_api(response) ==
    LET full_transcript == ConcatTranscripts(response)
        all_words == AllWords(response)
        total_duration ==
            IF all_words # <<>>
            THEN all_words[Len(all_words)].end_time - all_words[1].start_time
            ELSE 0
    IN  [transcript |-> str_strip(full_transcript, {" "}),
         speaking_pace_wpm |->
             IF all_words # <<>> /\ total_duration > 0
             THEN (Len(all_words) * 60) \div total_duration
             ELSE 0,
         filler_word_count |->
             count_filler_words(str_lower(full_transcript),
                                ANALYSIS_FILLER_WORDS),
         word_timestamps |-> all_words]

---------------------------------------------------------------------------
(* The stored video: its frame rate in hundredths of a frame per second    *)
(* and, for each decodable frame, the faces the detection service finds    *)

NoLikelihood == 6

FaceA ==
    [joy_likelihood |-> 5, sorrow_likelihood |-> 1, anger_likelihood |-> 1,
     surprise_likelihood |-> 2, under_exposed_likelihood |-> 1,
     blurred_likelihood |-> 1, headwear_likelihood |-> 0,
     detection_confidence |-> Rat(9, 10),
     roll_angle |-> 0, pan_angle |-> 0, tilt_angle |-> 0]

FaceB ==
    [joy_likelihood |-> 2, sorrow_likelihood |-> 3, anger_likelihood |-> 4,
     surprise_likelihood |-> NoLikelihood, under_exposed_likelihood |-> 1,
     blurred_likelihood |-> 2, headwear_likelihood |-> 1,
     detection_confidence |-> Rat(1, 2),
     roll_angle |-> 30, pan_angle |-> 20, tilt_angle |-> -10]

FrameKinds == { <<>>, <<FaceA>>, <<FaceB, FaceA>> }

FpsChoices == {0, 100, 200}

Videos ==
    { [fps |-> f, frames |-> fr] :
        f \in FpsChoices,
        fr \in UNION { [1..n -> FrameKinds] : n \in 0..MaxFrames } }

Unreadable == [fps |-> 0, frames |-> <<>>]

---------------------------------------------------------------------------
(* Frame sampling and the per-frame scores *)

Raised(e) == [raised |-> e]

FrameInterval(fps, interval_seconds) ==
    (fps * interval_seconds.n) \div (100 * interval_seconds.d)

RECURSIVE ReadFrames(_, _, _)
ReadFrames(v, frame_interval, frame_count) ==
    IF frame_count >= Len(v.frames) THEN <<>>
    ELSE IF frame_count % frame_interval = 0
    THEN << [timestamp |-> Rat(frame_count * 100, v.fps),
             image |-> v.frames[frame_count + 1],
             frame_number |-> frame_count] >>
         \o ReadFrames(v, frame_interval, frame_count + 1)
    ELSE ReadFrames(v, frame_interval, frame_count + 1)

\* a frame is read before frame_count % frame_interval is evaluated, so a
\* stride of 0 raises ZeroDivisionError only when there is a frame to read
extract_video_frames(v, interval_seconds) ==
    LET frame_interval == FrameInterval(v.fps, interval_seconds)
    IN  IF v.frames # <<>> /\ frame_interval = 0
        THEN Raised("ZeroDivisionError")
        ELSE [frames |-> IF v.frames = <<>> THEN <<>>
                         ELSE ReadFrames(v, frame_interval, 0)]

\* mutation: evenly spaced steps of 0.2 in place of the ladder
likelihood_to_score_even(likelihood) ==
    IF likelihood \in 0..5 THEN Rat(2 * likelihood, 10) ELSE Zero

likelihood_to_score(likelihood) ==
    CASE likelihood = 0 -> Zero
      [] likelihood = 1 -> Rat(1, 10)
      [] likelihood = 2 -> Rat(3, 10)
      [] likelihood = 3 -> Rat(5, 10)
      [] likelihood = 4 -> Rat(7, 10)
      [] likelihood = 5 -> Rat(9, 10)
      [] OTHER -> Zero

\* mutation: the deviations keep the sign of the angles
estimate_eye_contact_signed(pan_angle, tilt_angle, roll_angle) ==
    LET weighted_deviation ==
            RAdd(RAdd(RMul(Whole(pan_angle), Rat(6, 10)),
                      RMul(Whole(tilt_angle), Rat(3, 10))),
                 RMul(Whole(roll_angle), Rat(1, 10)))
    IN  RMax(Zero, RSub(One, RDiv(weighted_deviation, Whole(30))))

estimate_eye_contact(pan_angle, tilt_angle, roll_angle) ==
    LET weighted_deviation ==
            RAdd(RAdd(RMul(Whole(AbsInt(pan_angle)), Rat(6, 10)),
                      RMul(Whole(AbsInt(tilt_angle)), Rat(3, 10))),
                 RMul(Whole(AbsInt(roll_angle)), Rat(1, 10)))
    IN  RMax(Zero, RSub(One, RDiv(weighted_deviation, Whole(30))))

\* mutation: the last detected face is analysed
LastDetectedFace(faces) == faces[Len(faces)]

\* face = faces[0]
AnalysedFace(faces) == faces[1]

EmotionFrame(timestamp, face) ==
    [timestamp |-> timestamp,
     emotions |->
         [joy |-> likelihood_to_score(face.joy_likelihood),
          sorrow |-> likelihood_to_score(face.sorrow_likelihood),
          anger |-> likelihood_to_score(face.anger_likelihood),
          surprise |-> likelihood_to_score(face.surprise_likelihood),
          under_exposed |-> likelihood_to_score(face.under_exposed_likelihood),
          blurred |-> likelihood_to_score(face.blurred_likelihood),
          headwear |-> likelihood_to_score(face.headwear_likelihood)],
     detection_confidence |-> face.detection_confidence]

HeadPoseFrame(timestamp, face) ==
    [timestamp |-> timestamp,
     roll_angle |-> face.roll_angle,
     pan_angle |-> face.pan_angle,
     tilt_angle |-> face.tilt_angle,
     eye_contact_score |->
         estimate_eye_contact(face.pan_angle, face.tilt_angle,
                              face.roll_angle)]

EmptyDict == [k \in {} |-> Zero]

EmotionStat(values) ==
    [average |-> RMean(values), max |-> RMaxOf(values),
     min |-> RMinOf(values), std |-> np_std(values)]

calculate_emotion_statistics(emotion_timeline) ==
    IF emotion_timeline = <<>> THEN EmptyDict
    ELSE [emotion \in {"joy", "sorrow", "anger", "surprise"} |->
             EmotionStat([i \in 1..Len(emotion_timeline) |->
                             emotion_timeline[i].emotions[emotion]])]

\* mutation: a single sample is not treated as insufficient
calculate_consistency_single(values) ==
    IF Len(values) < 1 THEN Zero
    ELSE LET mean_val == RMean(values)
         IN  IF mean_val = Zero THEN Zero
             ELSE RMax(Zero, RSub(One, RDiv(np_std(values), mean_val)))

calculate_consistency(values) ==
    IF Len(values) < 2 THEN Zero
    ELSE LET mean_val == RMean(values)
         IN  IF mean_val = Zero THEN Zero
             ELSE RMax(Zero, RSub(One, RDiv(np_std(values), mean_val)))

calculate_head_stability(head_pose_timeline) ==
    IF head_pose_timeline = <<>> THEN Zero
    ELSE LET n == Len(head_pose_timeline)
             pan_std == np_std([i \in 1..n |->
                                   Whole(head_pose_timeline[i].pan_angle)])
             tilt_std == np_std([i \in 1..n |->
                                    Whole(head_pose_timeline[i].tilt_angle)])
             roll_std == np_std([i \in 1..n |->
                                    Whole(head_pose_timeline[i].roll_angle)])
             avg_std == RDiv(RAdd(RAdd(pan_std, tilt_std), roll_std), Whole(3))
         IN  RMax(Zero, RSub(One, RDiv(avg_std, Whole(30))))

\* mutation: weights that add up to 1.1
calculate_confidence_score_overweight(eye_contact, consistency, stability) ==
    RAdd(RAdd(RMul(eye_contact, Rat(5, 10)), RMul(consistency, Rat(3, 10))),
         RMul(stability, Rat(3, 10)))

\* mutation: the weights of eye contact and consistency are exchanged
calculate_confidence_score_swapped(eye_contact, consistency, stability) ==
    RAdd(RAdd(RMul(eye_contact, Rat(3, 10)), RMul(consistency, Rat(5, 10))),
         RMul(stability, Rat(2, 10)))

calculate_confidence_score(eye_contact, consistency, stability) ==
    RAdd(RAdd(RMul(eye_contact, Rat(5, 10)), RMul(consistency, Rat(3, 10))),
         RMul(stability, Rat(2, 10)))

\* lines 211-219
FacialResult(emotion_timeline) ==
    [emotion_timeline |-> emotion_timeline,
     emotion_statistics |-> calculate_emotion_statistics(emotion_timeline),
     total_frames_analyzed |-> Len(emotion_timeline),
     average_detection_confidence |->
         IF emotion_timeline # <<>>
         THEN RMean([i \in 1..Len(emotion_timeline) |->
                        emotion_timeline[i].detection_confidence])
         ELSE Zero]

\* lines 283-294
ConfidenceResult(head_pose_timeline, eye_contact_estimates) ==
    LET avg_eye_contact ==
            IF eye_contact_estimates # <<>> THEN RMean(eye_contact_estimates)
            ELSE Zero
        eye_contact_consistency == calculate_consistency(eye_contact_estimates)
        head_stability == calculate_head_stability(head_pose_timeline)
    IN  [head_pose_timeline |-> head_pose_timeline,
         average_eye_contact_score |-> avg_eye_contact,
         eye_contact_consistency |-> eye_contact_consistency,
         head_stability_score |-> head_stability,
         confidence_score |->
             calculate_confidence_score(avg_eye_contact,
                                        eye_contact_consistency,
                                        head_stability)]

---------------------------------------------------------------------------
(* Score aggregation *)

\* mutation: strict comparisons, a boundary score gets the lower grade
score_to_grade_strict(score) ==
    IF RGt(score, Rat(90, 100)) THEN "A+"
    ELSE IF RGt(score, Rat(85, 100)) THEN "A"
    ELSE IF RGt(score, Rat(80, 100)) THEN "A-"
    ELSE IF RGt(score, Rat(75, 100)) THEN "B+"
    ELSE IF RGt(score, Rat(70, 100)) THEN "B"
    ELSE IF RGt(score, Rat(65, 100)) THEN "B-"
    ELSE IF RGt(score, Rat(60, 100)) THEN "C+"
    ELSE IF RGt(score, Rat(55, 100)) THEN "C"
    ELSE IF RGt(score, Rat(50, 100)) THEN "C-"
    ELSE IF RGt(score, Rat(45, 100)) THEN "D+"
    ELSE IF RGt(score, Rat(40, 100)) THEN "D"
    ELSE "F"

score_to_grade(score) ==
    IF RGe(score, Rat(90, 100)) THEN "A+"
    ELSE IF RGe(score, Rat(85, 100)) THEN "A"
    ELSE IF RGe(score, Rat(80, 100)) THEN "A-"
    ELSE IF RGe(score, Rat(75, 100)) THEN "B+"
    ELSE IF RGe(score, Rat(70, 100)) THEN "B"
    ELSE IF RGe(score, Rat(65, 100)) THEN "B-"
    ELSE IF RGe(score, Rat(60, 100)) THEN "C+"
    ELSE IF RGe(score, Rat(55, 100)) THEN "C"
    ELSE IF RGe(score, Rat(50, 100)) THEN "C-"
    ELSE IF RGe(score, Rat(45, 100)) THEN "D+"
    ELSE IF RGe(score, Rat(40, 100)) THEN "D"
    ELSE "F"

Has(dict, key) == key \in DOMAIN dict

ComponentKeys(speech_analysis, facial_analysis, confidence_analysis) ==
    (IF Has(speech_analysis, "clarity_score")
     THEN {"speech_clarity"} ELSE {})
    \cup (IF Has(facial_analysis, "emotion_statistics")
             /\ Has(facial_analysis.emotion_statistics, "joy")
          THEN {"positivity"} ELSE {})
    \cup (IF Has(confidence_analysis, "confidence_score")
          THEN {"confidence"} ELSE {})

RECURSIVE SumValues(_, _)
SumValues(dict, keys) ==
    IF keys = {} THEN Zero
    ELSE LET k == CHOOSE x \in keys : TRUE
         IN  RAdd(dict[k], SumValues(dict, keys \ {k}))

\* mutation: failed components count as zero in the average
MeanOverThreeComponents(scores) ==
    RDiv(SumValues(scores, DOMAIN scores), Whole(3))

\* sum(scores.values()) / len(scores)
MeanOfScores(scores) ==
    RDiv(SumValues(scores, DOMAIN scores), Whole(Cardinality(DOMAIN scores)))

calculate_overall_score(speech_analysis, facial_analysis, confidence_analysis) ==
    LET scores ==
            [k \in ComponentKeys(speech_analysis, facial_analysis,
                                 confidence_analysis) |->
                CASE k = "speech_clarity" -> speech_analysis.clarity_score
                  [] k = "positivity" ->
                         facial_analysis.emotion_statistics.joy.average
                  [] k = "confidence" -> confidence_analysis.confidence_score]
    IN  IF DOMAIN scores # {}
        THEN LET overall_score == MeanOfScores(scores)
             IN  [overall_score |-> overall_score,
                  component_scores |-> scores,
                  grade |-> score_to_grade(overall_score)]
        ELSE [overall_score |-> Zero, component_scores |-> EmptyDict,
              grade |-> "F"]

---------------------------------------------------------------------------
(* State of the three tasks and of the request *)

max_workers == 3

Bodies == {"none", "no_uri", "bad_scheme", "missing_object", "ok"}

Requests ==
    { [method |-> "OPTIONS", body |-> "none"],
      [method |-> "GET", body |-> "none"] }
    \cup { [method |-> "POST", body |-> b] : b \in Bodies }

PipelineRecognitions ==
    { Recognized(0, 0, 1, 1), Recognized(2, 4, 1, 1) }

TempNames == {"tmp1", "tmp2"}

SpeechTask(pcv) ==
    [pc |-> pcv, r |-> 1, i |-> 1, transcript_parts |-> <<>>,
     word_timestamps |-> <<>>, total_words |-> 0, filler_word_count |-> 0,
     fault |-> "", result |-> Pending]

FacialTask(pcv) ==
    [pc |-> pcv, temp |-> "", frames_data |-> <<>>, i |-> 1,
     emotion_timeline |-> <<>>, fault |-> "", result |-> Pending]

ConfidenceTask(pcv) ==
    [pc |-> pcv, temp |-> "", frames_data |-> <<>>, i |-> 1,
     head_pose_timeline |-> <<>>, eye_contact_estimates |-> <<>>,
     fault |-> "", result |-> Pending]

NothingJoined ==
    [speech_analysis |-> Pending, facial_analysis |-> Pending,
     confidence_analysis |-> Pending]

\* a task occupies a worker thread from its start to its return
Occupies(t) == t.pc \notin {"idle", "queued", "done"}

Running ==
    (IF Occupies(sp) THEN 1 ELSE 0) + (IF Occupies(fa) THEN 1 ELSE 0)
    + (IF Occupies(co) THEN 1 ELSE 0)

WorkerFree == Running < max_workers

\* mutation: result() returns as soon as the task was submitted
FutureDoneEarly(t) == t.pc # "idle"

\* mutation: result() never returns for a task that failed
FutureDoneUnlessFailed(t) == t.pc = "done" /\ t.fault = ""

\* mutation: result() returns as soon as a worker has taken the task
FutureDoneWhenStarted(t) == t.pc \notin {"idle", "queued"}

\* Future.result() returns once the task has returned
FutureDone(t) == t.pc = "done"

\* mutation: the except clause returns an empty dict, not an error marker
FailedWithoutMarker(t, e) ==
    [t EXCEPT !.pc = "done", !.fault = e, !.result = EmptyDict]

\* the except clause of a branch: the failure becomes the branch's result
Failed(t, e) == [t EXCEPT !.pc = "done", !.fault = e, !.result = ErrorMarker(e)]

Returned(t, value) == [t EXCEPT !.pc = "done", !.result = value]

\* mutation: both vision branches download to one fixed path
SharedTemporaryFile(files) == "tmp1"

NamedTemporaryFile(files) == CHOOSE name \in TempNames : name \notin DOMAIN files

WithFile(files, name, content) ==
    [f \in DOMAIN files \cup {name} |->
        IF f = name THEN content ELSE files[f]]

\* mutation: the clean-up removes every temporary file, not only its own
WithoutAnyFile(files, name) == [f \in {} |-> "video"]

WithoutFile(files, name) == [f \in DOMAIN files \ {name} |-> files[f]]

\* what cv2.VideoCapture reads at a path
Capture(files, name) ==
    IF name \in DOMAIN files /\ files[name] = "video" THEN video
    ELSE Unreadable

Init ==
    /\ request \in Requests
    /\ pc = "request"
    /\ sent = <<>>
    /\ IF request.body = "ok"
       THEN video \in Videos /\ recognition \in PipelineRecognitions
       ELSE video = Unreadable /\ recognition = <<>>
    /\ sp = SpeechTask("idle")
    /\ fa = FacialTask("idle")
    /\ co = ConfidenceTask("idle")
    /\ tempFiles = EmptyDict
    /\ joined = NothingJoined
    /\ overall = Pending
    /\ audio = Pending
    /\ call = Pending

---------------------------------------------------------------------------
(* analyze_video: the HTTP entry point, lines 526-569 *)

Reply(status, body) == [status |-> status, body |-> body]

HandleOptions ==
    /\ pc = "request"
    /\ request.method = "OPTIONS"
    /\ sent' = Append(sent, Reply(204, EmptyDict))
    /\ pc' = "returned"
    /\ UNCHANGED <<call, request, recognition, video, sp, fa, co, tempFiles,
                   joined, overall, audio>>

RejectMethod ==
    /\ pc = "request"
    /\ request.method \notin {"OPTIONS", "POST"}
    /\ sent' = Append(sent, Reply(405, ErrorMarker("Only POST method allowed")))
    /\ pc' = "returned"
    /\ UNCHANGED <<call, request, recognition, video, sp, fa, co, tempFiles,
                   joined, overall, audio>>

RejectBody ==
    /\ pc = "request"
    /\ request.method = "POST"
    /\ request.body \in {"none", "no_uri"}
    /\ sent' = Append(sent,
                      Reply(400, ErrorMarker(IF request.body = "none"
                                             THEN "No JSON body provided"
                                             ELSE "videoUri is required")))
    /\ pc' = "returned"
    /\ UNCHANGED <<call, request, recognition, video, sp, fa, co, tempFiles,
                   joined, overall, audio>>

BeginAnalysis ==
    /\ pc = "request"
    /\ request.method = "POST"
    /\ request.body \notin {"none", "no_uri"}
    /\ pc' = "submit_speech"
    /\ UNCHANGED <<call, request, sent, recognition, video, sp, fa, co, tempFiles,
                   joined, overall, audio>>

---------------------------------------------------------------------------
(* analyze_video_comprehensive: fork, join, combine; lines 45-74 *)

SubmitSpeech ==
    /\ pc = "submit_speech"
    /\ sp' = [sp EXCEPT !.pc = "queued"]
    /\ pc' = "submit_facial"
    /\ UNCHANGED <<call, request, sent, recognition, video, fa, co, tempFiles,
                   joined, overall, audio>>

SubmitFacial ==
    /\ pc = "submit_facial"
    /\ fa' = [fa EXCEPT !.pc = "queued"]
    /\ pc' = "submit_confidence"
    /\ UNCHANGED <<call, request, sent, recognition, video, sp, co, tempFiles,
                   joined, overall, audio>>

SubmitConfidence ==
    /\ pc = "submit_confidence"
    /\ co' = [co EXCEPT !.pc = "queued"]
    /\ pc' = "wait_speech"
    /\ UNCHANGED <<call, request, sent, recognition, video, sp, fa, tempFiles,
                   joined, overall, audio>>

JoinSpeech ==
    /\ pc = "wait_speech"
    /\ FutureDone(sp)
    /\ joined' = [joined EXCEPT !.speech_analysis = sp.result]
    /\ pc' = "wait_facial"
    /\ UNCHANGED <<call, request, sent, recognition, video, sp, fa, co, tempFiles,
                   overall, audio>>

JoinFacial ==
    /\ pc = "wait_facial"
    /\ FutureDone(fa)
    /\ joined' = [joined EXCEPT !.facial_analysis = fa.result]
    /\ pc' = "wait_confidence"
    /\ UNCHANGED <<call, request, sent, recognition, video, sp, fa, co, tempFiles,
                   overall, audio>>

JoinConfidence ==
    /\ pc = "wait_confidence"
    /\ FutureDone(co)
    /\ joined' = [joined EXCEPT !.confidence_analysis = co.result]
    /\ pc' = "shutdown"
    /\ UNCHANGED <<call, request, sent, recognition, video, sp, fa, co, tempFiles,
                   overall, audio>>

\* leaving the with block: executor.shutdown(wait=True)
ExecutorExit ==
    /\ pc = "shutdown"
    /\ FutureDone(sp) /\ FutureDone(fa) /\ FutureDone(co)
    /\ pc' = "combine"
    /\ UNCHANGED <<call, request, sent, recognition, video, sp, fa, co, tempFiles,
                   joined, overall, audio>>

Combine ==
    /\ pc = "combine"
    /\ overall' = calculate_overall_score(joined.speech_analysis,
                                          joined.facial_analysis,
                                          joined.confidence_analysis)
    /\ pc' = "respond"
    /\ UNCHANGED <<call, request, sent, recognition, video, sp, fa, co, tempFiles,
                   joined, audio>>

ComprehensiveAnalysis ==
    [video_uri |-> request.body,
     speech_analysis |-> joined.speech_analysis,
     facial_analysis |-> joined.facial_analysis,
     confidence_analysis |-> joined.confidence_analysis,
     overall_score |-> overall]

Respond ==
    /\ pc = "respond"
    /\ sent' = Append(sent, Reply(200, ComprehensiveAnalysis))
    /\ pc' = "returned"
    /\ UNCHANGED <<call, request, recognition, video, sp, fa, co, tempFiles,
                   joined, overall, audio>>

---------------------------------------------------------------------------
(* analyze_speech, lines 76-152 *)

SpeechStart ==
    /\ sp.pc = "queued"
    /\ WorkerFree
    /\ sp' = [sp EXCEPT !.pc = "recognize"]
    /\ UNCHANGED <<call, request, pc, sent, recognition, video, fa, co, tempFiles,
                   joined, overall, audio>>

\* lines 97-104: the long-running recognition returns, fails, or exceeds
\* its timeout of 300 seconds
SpeechRecognize ==
    /\ sp.pc = "recognize"
    /\ \E outcome \in {"ok", "timeout", "recognize failed"} :
          /\ outcome = "ok" => request.body = "ok"
          /\ sp' = IF outcome = "ok" THEN [sp EXCEPT !.pc = "results"]
                   ELSE Failed(sp, outcome)
    /\ UNCHANGED <<call, request, pc, sent, recognition, video, fa, co, tempFiles,
                   joined, overall, audio>>

\* lines 106-108: the next result's first alternative
SpeechNextResult ==
    /\ sp.pc = "results"
    /\ sp.r <= Len(recognition)
    /\ sp' = [sp EXCEPT
                !.transcript_parts = Append(@, recognition[sp.r].transcript),
                !.i = 1,
                !.pc = IF recognition[sp.r].words = <<>> THEN "results"
                       ELSE "words",
                !.r = IF recognition[sp.r].words = <<>> THEN @ + 1 ELSE @]
    /\ UNCHANGED <<call, request, pc, sent, recognition, video, fa, co, tempFiles,
                   joined, overall, audio>>

\* lines 110-124: one word of the alternative
SpeechWord ==
    /\ sp.pc = "words"
    /\ LET words == recognition[sp.r].words
           entry == WordEntry(words[sp.i])
           last == sp.i = Len(words)
       IN  sp' = [sp EXCEPT
                    !.word_timestamps = Append(@, entry),
                    !.total_words = @ + 1,
                    !.filler_word_count =
                        IF IsFillerWord(entry.word) THEN @ + 1 ELSE @,
                    !.i = IF last THEN 1 ELSE @ + 1,
                    !.r = IF last THEN @ + 1 ELSE @,
                    !.pc = IF last THEN "results" ELSE "words"]
    /\ UNCHANGED <<call, request, pc, sent, recognition, video, fa, co, tempFiles,
                   joined, overall, audio>>

\* lines 126-148
SpeechFinish ==
    /\ sp.pc = "results"
    /\ sp.r > Len(recognition)
    /\ sp' = Returned(sp, SpeechResult(sp.transcript_parts, sp.word_timestamps,
                                       sp.total_words, sp.filler_word_count))
    /\ UNCHANGED <<call, request, pc, sent, recognition, video, fa, co, tempFiles,
                   joined, overall, audio>>

\* process_audio_with_speech_api of the audio analysis service on the same
\* recognition response
ProcessAudio ==
    /\ audio = Pending
    /\ audio' = process_audio_with_speech_api(recognition)
    /\ UNCHANGED <<call, request, pc, sent, recognition, video, sp, fa, co,
                   tempFiles, joined, overall>>

---------------------------------------------------------------------------
(* analyze_facial_expressions, lines 154-223 *)

FacialStart ==
    /\ fa.pc = "queued"
    /\ WorkerFree
    /\ fa' = [fa EXCEPT !.pc = "download"]
    /\ UNCHANGED <<call, request, pc, sent, recognition, video, sp, co, tempFiles,
                   joined, overall, audio>>

\* _parse_gs_uri, NamedTemporaryFile(delete=False), download_to_filename;
\* a failed download leaves the created file or removes it
FacialDownload ==
    /\ fa.pc = "download"
    /\ IF request.body = "bad_scheme"
       THEN /\ fa' = Failed(fa, "Invalid GCS URI")
            /\ UNCHANGED tempFiles
       ELSE LET name == NamedTemporaryFile(tempFiles)
            IN  \E outcome \in {"ok", "download failed"}, left \in BOOLEAN :
                   /\ outcome = "ok" => request.body = "ok" /\ left
                   /\ tempFiles' =
                          IF outcome = "ok" THEN WithFile(tempFiles, name, "video")
                          ELSE IF left THEN WithFile(tempFiles, name, "empty")
                          ELSE tempFiles
                   /\ fa' = IF outcome = "ok"
                            THEN [fa EXCEPT !.pc = "extract", !.temp = name]
                            ELSE Failed([fa EXCEPT !.temp = name], outcome)
    /\ UNCHANGED <<call, request, pc, sent, recognition, video, sp, co, joined,
                   overall, audio>>

FacialExtract ==
    /\ fa.pc = "extract"
    /\ LET frames == extract_video_frames(Capture(tempFiles, fa.temp),
                                          One)
       IN  fa' = IF Has(frames, "raised") THEN Failed(fa, frames.raised)
                 ELSE [fa EXCEPT !.pc = "detect", !.i = 1,
                                 !.frames_data = frames.frames]
    /\ UNCHANGED <<call, request, pc, sent, recognition, video, sp, co, tempFiles,
                   joined, overall, audio>>

\* one iteration of the frame loop: the face detection call and its use
FacialDetect ==
    /\ fa.pc = "detect"
    /\ fa.i <= Len(fa.frames_data)
    /\ \E outcome \in {"ok", "face_detection failed"} :
          LET frame_data == fa.frames_data[fa.i]
              faces == frame_data.image
          IN  fa' =
                  IF outcome # "ok" THEN Failed(fa, outcome)
                  ELSE IF faces # <<>>
                  THEN [fa EXCEPT
                          !.i = @ + 1,
                          !.emotion_timeline =
                              Append(@, EmotionFrame(frame_data.timestamp,
                                                     AnalysedFace(faces)))]
                  ELSE [fa EXCEPT !.i = @ + 1]
    /\ UNCHANGED <<call, request, pc, sent, recognition, video, sp, co, tempFiles,
                   joined, overall, audio>>

\* os.unlink of the temporary file, then the statistics
FacialFinish ==
    /\ fa.pc = "detect"
    /\ fa.i > Len(fa.frames_data)
    /\ IF fa.temp \in DOMAIN tempFiles
       THEN /\ tempFiles' = WithoutFile(tempFiles, fa.temp)
            /\ fa' = Returned(fa, FacialResult(fa.emotion_timeline))
       ELSE /\ fa' = Failed(fa, "FileNotFoundError")
            /\ UNCHANGED tempFiles
    /\ UNCHANGED <<call, request, pc, sent, recognition, video, sp, co, joined,
                   overall, audio>>

---------------------------------------------------------------------------
(* analyze_confidence_metrics, lines 225-298 *)

ConfidenceStart ==
    /\ co.pc = "queued"
    /\ WorkerFree
    /\ co' = [co EXCEPT !.pc = "download"]
    /\ UNCHANGED <<call, request, pc, sent, recognition, video, sp, fa, tempFiles,
                   joined, overall, audio>>

\* _parse_gs_uri, NamedTemporaryFile(delete=False), download_to_filename;
\* a failed download leaves the created file or removes it
ConfidenceDownload ==
    /\ co.pc = "download"
    /\ IF request.body = "bad_scheme"
       THEN /\ co' = Failed(co, "Invalid GCS URI")
            /\ UNCHANGED tempFiles
       ELSE LET name == NamedTemporaryFile(tempFiles)
            IN  \E outcome \in {"ok", "download failed"}, left \in BOOLEAN :
                   /\ outcome = "ok" => request.body = "ok" /\ left
                   /\ tempFiles' =
                          IF outcome = "ok" THEN WithFile(tempFiles, name, "video")
                          ELSE IF left THEN WithFile(tempFiles, name, "empty")
                          ELSE tempFiles
                   /\ co' = IF outcome = "ok"
                            THEN [co EXCEPT !.pc = "extract", !.temp = name]
                            ELSE Failed([co EXCEPT !.temp = name], outcome)
    /\ UNCHANGED <<call, request, pc, sent, recognition, video, sp, fa, joined,
                   overall, audio>>

ConfidenceExtract ==
    /\ co.pc = "extract"
    /\ LET frames == extract_video_frames(Capture(tempFiles, co.temp),
                                          Rat(1, 2))
       IN  co' = IF Has(frames, "raised") THEN Failed(co, frames.raised)
                 ELSE [co EXCEPT !.pc = "detect", !.i = 1,
                                 !.frames_data = frames.frames]
    /\ UNCHANGED <<call, request, pc, sent, recognition, video, sp, fa, tempFiles,
                   joined, overall, audio>>

\* one iteration of the frame loop: the face detection call and its use
ConfidenceDetect ==
    /\ co.pc = "detect"
    /\ co.i <= Len(co.frames_data)
    /\ \E outcome \in {"ok", "face_detection failed"} :
          LET frame_data == co.frames_data[co.i]
              faces == frame_data.image
          IN  co' =
                  IF outcome # "ok" THEN Failed(co, outcome)
                  ELSE IF faces # <<>>
                  THEN [co EXCEPT
                          !.i = @ + 1,
                          !.head_pose_timeline =
                              Append(@, HeadPoseFrame(frame_data.timestamp,
                                                      AnalysedFace(faces))),
                          !.eye_contact_estimates =
                              Append(@, HeadPoseFrame(frame_data.timestamp,
                                        AnalysedFace(faces)).eye_contact_score)]
                  ELSE [co EXCEPT !.i = @ + 1]
    /\ UNCHANGED <<call, request, pc, sent, recognition, video, sp, fa, tempFiles,
                   joined, overall, audio>>

\* os.unlink of the temporary file, then the statistics
ConfidenceFinish ==
    /\ co.pc = "detect"
    /\ co.i > Len(co.frames_data)
    /\ IF co.temp \in DOMAIN tempFiles
       THEN /\ tempFiles' = WithoutFile(tempFiles, co.temp)
            /\ co' = Returned(co, ConfidenceResult(co.head_pose_timeline,
                                                  co.eye_contact_estimates))
       ELSE /\ co' = Failed(co, "FileNotFoundError")
            /\ UNCHANGED tempFiles
    /\ UNCHANGED <<call, request, pc, sent, recognition, video, sp, fa, joined,
                   overall, audio>>

---------------------------------------------------------------------------
(* Specifications *)

Handler == HandleOptions \/ RejectMethod \/ RejectBody \/ BeginAnalysis

Orchestrator ==
    \/ SubmitSpeech \/ SubmitFacial \/ SubmitConfidence
    \/ JoinSpeech \/ JoinFacial \/ JoinConfidence
    \/ ExecutorExit \/ Combine \/ Respond

SpeechBranch ==
    SpeechStart \/ SpeechRecognize \/ SpeechNextResult \/ SpeechWord
    \/ SpeechFinish

FacialBranch ==
    FacialStart \/ FacialDownload \/ FacialExtract \/ FacialDetect
    \/ FacialFinish

ConfidenceBranch ==
    ConfidenceStart \/ ConfidenceDownload \/ ConfidenceExtract
    \/ ConfidenceDetect \/ ConfidenceFinish

Next == Handler \/ Orchestrator \/ SpeechBranch \/ FacialBranch
        \/ ConfidenceBranch

Spec == Init /\ [][Next]_vars

\* the pipeline on single-frame videos and a recognition of no word or of
\* one word, with every thread that can take a step eventually taking one
LiveVideos ==
    { [fps |-> f, frames |-> << fr >>] :
        f \in {100, 200}, fr \in { <<>>, <<FaceA>> } }

LiveRecognitions == { Recognized(0, 0, 1, 1), Recognized(1, 5, 1, 1) }

InitLive ==
    /\ request \in Requests
    /\ pc = "request"
    /\ sent = <<>>
    /\ IF request.body = "ok"
       THEN video \in LiveVideos /\ recognition \in LiveRecognitions
       ELSE video = Unreadable /\ recognition = <<>>
    /\ sp = SpeechTask("idle")
    /\ fa = FacialTask("idle")
    /\ co = ConfidenceTask("idle")
    /\ tempFiles = EmptyDict
    /\ joined = NothingJoined
    /\ overall = Pending
    /\ audio = Pending
    /\ call = Pending

FairSpec == InitLive /\ [][Next]_vars /\ WF_vars(Next)

\* analyze_speech and process_audio_with_speech_api applied to every
\* recognition of the bounded family
InitSpeech ==
    /\ request = [method |-> "POST", body |-> "ok"]
    /\ pc = "wait_speech"
    /\ sent = <<>>
    /\ video = Unreadable
    /\ recognition \in Recognitions(MaxWords) \cup {ScenarioRecognition}
    /\ sp = SpeechTask("queued")
    /\ fa = FacialTask("queued")
    /\ co = ConfidenceTask("queued")
    /\ tempFiles = EmptyDict
    /\ joined = NothingJoined
    /\ overall = Pending
    /\ audio = Pending
    /\ call = Pending

NextSpeech == SpeechBranch \/ ProcessAudio

SpecSpeech == InitSpeech /\ [][NextSpeech]_vars

\* calculate_overall_score applied to every combination of branch results
\* whose component scores lie on a grid of 1/ScoreGrid
GridScores == { Rat(k, ScoreGrid) : k \in 0..ScoreGrid }

SpeechAnalyses ==
    {ErrorMarker("timeout")} \cup { [clarity_score |-> x] : x \in GridScores }

FacialAnalyses ==
    {ErrorMarker("face_detection failed"), [emotion_statistics |-> EmptyDict]}
    \cup { [emotion_statistics |-> [joy |-> [average |-> x]]] :
             x \in GridScores }

ConfidenceAnalyses ==
    {ErrorMarker("ZeroDivisionError")}
    \cup { [confidence_score |-> x] : x \in GridScores }

InitScore ==
    /\ request = [method |-> "POST", body |-> "ok"]
    /\ pc = "combine"
    /\ sent = <<>>
    /\ video = Unreadable
    /\ recognition = <<>>
    /\ \E s \in SpeechAnalyses, f \in FacialAnalyses, c \in ConfidenceAnalyses :
          /\ joined = [speech_analysis |-> s, facial_analysis |-> f,
                       confidence_analysis |-> c]
          /\ sp = Returned(SpeechTask("done"), s)
          /\ fa = Returned(FacialTask("done"), f)
          /\ co = Returned(ConfidenceTask("done"), c)
    /\ tempFiles = EmptyDict
    /\ overall = Pending
    /\ audio = Pending
    /\ call = Pending

NextScore == Combine \/ Respond

SpecScore == InitScore /\ [][NextScore]_vars

\* the helper methods called on their own, on arguments drawn from grids
MaxPercent == 100
MaxSamples == 3
LevelMargin == 3
MaxDecoded == 4

Percentages == { Whole(k) : k \in 0..MaxPercent }

WpmChoices == { Whole(k) : k \in {0, 54, 55, 56, 100, 155, 156, 255, 256, 400} }

SampleValues == { Whole(-1), Zero, Rat(1, 2), One }

SampleLists == UNION { [1..n -> SampleValues] : n \in 0..MaxSamples }

Levels == (0 - LevelMargin)..(5 + LevelMargin)

Angles == {-300, -60, -50, -48, -4, -1, 0, 1, 4, 30, 48, 50, 100}

SampledVideos ==
    { [fps |-> f, frames |-> [i \in 1..n |-> IF i % 2 = 1 THEN <<FaceA>> ELSE <<>>]] :
        f \in {0, 50, 100, 150, 175, 200, 2997}, n \in 0..MaxDecoded }

Calls ==
    { [method |-> "calculate_clarity_score", filler_percentage |-> p,
       words_per_minute |-> w, value |-> Pending] :
        p \in Percentages, w \in WpmChoices }
    \cup { [method |-> "calculate_consistency", values |-> v,
            value |-> Pending] : v \in SampleLists }
    \cup { [method |-> "analyze_pacing_variations",
            word_timestamps |->
                [i \in 1..n |-> WordEntry(WordInfo(i, n, 0, dur, step))],
            value |-> Pending] :
              n \in (window_size - 1)..(window_size + 1),
              dur \in 0..1, step \in 0..1 }
    \cup { [method |-> "likelihood_to_score", likelihood |-> l,
            value |-> Pending] : l \in Levels }
    \cup { [method |-> "estimate_eye_contact", pan_angle |-> a,
            tilt_angle |-> b, roll_angle |-> c, value |-> Pending] :
              a \in Angles, b \in Angles, c \in Angles }
    \cup { [method |-> "extract_video_frames", video_path |-> v,
            interval_seconds |-> i, value |-> Pending] :
              v \in SampledVideos, i \in {One, Rat(1, 2)} }

InitCall ==
    /\ request = [method |-> "OPTIONS", body |-> "none"]
    /\ pc = "request"
    /\ sent = <<>>
    /\ video = Unreadable
    /\ recognition = <<>>
    /\ sp = SpeechTask("idle")
    /\ fa = FacialTask("idle")
    /\ co = ConfidenceTask("idle")
    /\ tempFiles = EmptyDict
    /\ joined = NothingJoined
    /\ overall = Pending
    /\ audio = Pending
    /\ call \in Calls

Called(method) == call.method = method /\ call.value = Pending

Others ==
    <<request, pc, sent, recognition, video, sp, fa, co, tempFiles, joined,
      overall, audio>>

CallClarityScore ==
    /\ Called("calculate_clarity_score")
    /\ call' = [call EXCEPT !.value =
                    calculate_clarity_score(call.filler_percentage,
                                            call.words_per_minute)]
    /\ UNCHANGED Others

CallConsistency ==
    /\ Called("calculate_consistency")
    /\ call' = [call EXCEPT !.value = calculate_consistency(call.values)]
    /\ UNCHANGED Others

CallPacingVariations ==
    /\ Called("analyze_pacing_variations")
    /\ call' = [call EXCEPT !.value =
                    analyze_pacing_variations(call.word_timestamps)]
    /\ UNCHANGED Others

CallLikelihoodToScore ==
    /\ Called("likelihood_to_score")
    /\ call' = [call EXCEPT !.value = likelihood_to_score(call.likelihood)]
    /\ UNCHANGED Others

CallEyeContact ==
    /\ Called("estimate_eye_contact")
    /\ call' = [call EXCEPT !.value =
                    estimate_eye_contact(call.pan_angle, call.tilt_angle,
                                         call.roll_angle)]
    /\ UNCHANGED Others

CallExtractFrames ==
    /\ Called("extract_video_frames")
    /\ call' = [call EXCEPT !.value =
                    extract_video_frames(call.video_path,
                                         call.interval_seconds)]
    /\ UNCHANGED Others

NextCall ==
    \/ CallClarityScore
    \/ CallConsistency
    \/ CallPacingVariations
    \/ CallLikelihoodToScore
    \/ CallEyeContact
    \/ CallExtractFrames

SpecCall == InitCall /\ [][NextCall]_vars

\* the two vision branches running side by side on the worker pool, the
\* speech branch having already returned
InitVision ==
    /\ request \in { [method |-> "POST", body |-> b] :
                       b \in {"bad_scheme", "missing_object", "ok"} }
    /\ pc = "wait_speech"
    /\ sent = <<>>
    /\ IF request.body = "ok" THEN video \in Videos ELSE video = Unreadable
    /\ recognition = <<>>
    /\ sp = Failed(SpeechTask("recognize"), "timeout")
    /\ fa = FacialTask("queued")
    /\ co = ConfidenceTask("queued")
    /\ tempFiles = EmptyDict
    /\ joined = NothingJoined
    /\ overall = Pending
    /\ audio = Pending
    /\ call = Pending

NextVision == FacialBranch \/ ConfidenceBranch

SpecVision == InitVision /\ [][NextVision]_vars

---------------------------------------------------------------------------
(* Properties *)

AnalysisBegun == pc \notin {"request", "returned"} \/ sp.pc # "idle"

AggregationStarted == pc \in {"combine", "respond"} \/ overall # Pending

IsErrorMarker(d) == DOMAIN d = {"error"}

\* C1: calculate_overall_score is invoked only after the speech, the facial
\* and the confidence branch have all returned, each with a result or an
\* error marker, and it is invoked on exactly those three values.
C1_AggregateAfterAllBranches ==
    AggregationStarted =>
        /\ sp.pc = "done" /\ fa.pc = "done" /\ co.pc = "done"
        /\ sp.result # Pending /\ fa.result # Pending /\ co.result # Pending
        /\ joined = [speech_analysis |-> sp.result,
                     facial_analysis |-> fa.result,
                     confidence_analysis |-> co.result]

C1_Witness ==
    /\ pc = "combine"
    /\ request.body = "ok"
    /\ IsErrorMarker(sp.result)
    /\ Has(fa.result, "emotion_timeline")
    /\ Has(co.result, "confidence_score")

\* What each branch yields from its own input when nothing fails in it
HasFace(frame_data) == frame_data.image # <<>>

ExpectedSpeech ==
    LET words == AllWords(recognition)
        entries == [i \in 1..Len(words) |-> WordEntry(words[i])]
    IN  SpeechResult([r \in 1..Len(recognition) |-> recognition[r].transcript],
                     entries, Len(words),
                     Cardinality({i \in 1..Len(words) :
                                     IsFillerWord(entries[i].word)}))

\* what a vision branch computes from the frames it extracts, or the marker
\* of the exception the extraction itself raises
ExpectedFacial ==
    LET extracted == extract_video_frames(video, One)
    IN  IF "raised" \in DOMAIN extracted THEN ErrorMarker(extracted.raised)
        ELSE LET seen == SelectSeq(extracted.frames, HasFace)
             IN  FacialResult([i \in 1..Len(seen) |->
                     EmotionFrame(seen[i].timestamp, seen[i].image[1])])

ExpectedConfidence ==
    LET extracted == extract_video_frames(video, Rat(1, 2))
    IN  IF "raised" \in DOMAIN extracted THEN ErrorMarker(extracted.raised)
        ELSE LET seen == SelectSeq(extracted.frames, HasFace)
                 poses == [i \in 1..Len(seen) |->
                     HeadPoseFrame(seen[i].timestamp, seen[i].image[1])]
             IN  ConfidenceResult(poses,
                     [i \in 1..Len(seen) |-> poses[i].eye_contact_score])

\* the step on which a branch returns sets its slot, and the slot is never
\* changed afterwards
SlotIsolated(t, tNext, expected) ==
    /\ (t.pc # "done" /\ tNext.pc = "done") =>
          IF tNext.fault # "" THEN tNext.result = ErrorMarker(tNext.fault)
          ELSE tNext.result = expected
    /\ t.pc = "done" => tNext = t

SlotsIsolated ==
    /\ SlotIsolated(sp, sp', ExpectedSpeech)
    /\ SlotIsolated(fa, fa', ExpectedFacial)
    /\ SlotIsolated(co, co', ExpectedConfidence)

SlotsInResponse ==
    (pc = "returned" /\ sp.pc = "done") =>
        /\ Len(sent) = 1
        /\ sent[1].status = 200
        /\ sent[1].body.speech_analysis = sp.result
        /\ sent[1].body.facial_analysis = fa.result
        /\ sent[1].body.confidence_analysis = co.result

\* C2: whichever branches fail (the transcription timeout included), the
\* slot of a failed branch holds its error marker, the slot of every other
\* branch holds the result that branch computes from the video alone, and
\* the response carries the three slots.
C2_BranchIsolation == [][SlotsIsolated]_vars /\ []SlotsInResponse

C2_Witness ==
    /\ pc = "returned"
    /\ sp.fault = "timeout"
    /\ co.fault = "face_detection failed"
    /\ fa.fault = ""
    /\ Len(sent) = 1
    /\ sent[1].body.facial_analysis.total_frames_analyzed > 0
    /\ IsErrorMarker(sent[1].body.speech_analysis)

\* the component scores the three slots carry
PresentComponents ==
    (IF ~IsErrorMarker(joined.speech_analysis)
     THEN {"speech_clarity"} ELSE {})
    \cup (IF ~IsErrorMarker(joined.facial_analysis)
             /\ joined.facial_analysis.emotion_statistics # EmptyDict
          THEN {"positivity"} ELSE {})
    \cup (IF ~IsErrorMarker(joined.confidence_analysis)
          THEN {"confidence"} ELSE {})

ComponentValue(k) ==
    CASE k = "speech_clarity" -> joined.speech_analysis.clarity_score
      [] k = "positivity" ->
             joined.facial_analysis.emotion_statistics.joy.average
      [] k = "confidence" -> joined.confidence_analysis.confidence_score

RECURSIVE TotalOf(_)
TotalOf(keys) ==
    IF keys = {} THEN Zero
    ELSE LET k == CHOOSE x \in keys : TRUE
         IN  RAdd(ComponentValue(k), TotalOf(keys \ {k}))

\* C3: overall_score is the arithmetic mean of exactly the component scores
\* that are present; an error-marked branch is in neither the sum nor the
\* divisor, and component_scores has one entry per present component.
C3_MeanOfPresent ==
    overall # Pending =>
        /\ DOMAIN overall.component_scores = PresentComponents
        /\ \A k \in PresentComponents :
              overall.component_scores[k] = ComponentValue(k)
        /\ RMul(overall.overall_score, Whole(Cardinality(PresentComponents)))
               = TotalOf(PresentComponents)
        /\ PresentComponents = {} => overall.overall_score = Zero

C3_Witness ==
    /\ overall # Pending
    /\ IsErrorMarker(joined.speech_analysis)
    /\ PresentComponents = {"positivity", "confidence"}
    /\ ComponentValue("positivity") = Rat(1, 2)
    /\ ComponentValue("confidence") = One
    /\ overall.overall_score = Rat(3, 4)

GradeTable ==
    << <<90, "A+">>, <<85, "A">>, <<80, "A-">>, <<75, "B+">>, <<70, "B">>,
       <<65, "B-">>, <<60, "C+">>, <<55, "C">>, <<50, "C-">>, <<45, "D+">>,
       <<40, "D">> >>

Meets(score, row) == score.n * 100 >= GradeTable[row][1] * score.d

TableGrade(score) ==
    IF \E row \in 1..Len(GradeTable) : Meets(score, row)
    THEN GradeTable[CHOOSE row \in 1..Len(GradeTable) :
                        /\ Meets(score, row)
                        /\ \A higher \in 1..(row - 1) : ~Meets(score, higher)][2]
    ELSE "F"

\* 1 for A+ down to 12 for F
GradeRank(grade) ==
    IF \E row \in 1..Len(GradeTable) : GradeTable[row][2] = grade
    THEN CHOOSE row \in 1..Len(GradeTable) : GradeTable[row][2] = grade
    ELSE Len(GradeTable) + 1

OnlyConfidencePresent(x) ==
    /\ IsErrorMarker(joined.speech_analysis)
    /\ IsErrorMarker(joined.facial_analysis)
    /\ joined.confidence_analysis = [confidence_score |-> x]

\* C4: the grade is that of the first threshold of the descending table
\* the score meets (a score equal to a threshold gets the higher grade),
\* a lower score never has a better grade, and confidence_score = 0.8
\* alone gives overall_score 0.8 and grade A-.
C4_GradeTable ==
    overall # Pending =>
        /\ overall.grade = TableGrade(overall.overall_score)
        /\ \A lower \in GridScores :
              RLe(lower, overall.overall_score) =>
                  GradeRank(score_to_grade(lower)) >= GradeRank(overall.grade)
        /\ OnlyConfidencePresent(Rat(8, 10)) =>
              /\ overall.overall_score = Rat(8, 10)
              /\ overall.grade = "A-"

C4_Witness ==
    /\ overall # Pending
    /\ OnlyConfidencePresent(Rat(8, 10))
    /\ overall.grade = "A-"

\* C5: when all three branches fail, none of the three slots of the result
\* holds a section (each holds only its error marker) and the overall score
\* is overall_score = 0.0, grade = 'F', component_scores = {}.
C5_AllBranchesFail ==
    (pc = "returned" /\ sp.fault # "" /\ fa.fault # "" /\ co.fault # "") =>
        /\ Len(sent) = 1
        /\ sent[1].status = 200
        /\ IsErrorMarker(sent[1].body.speech_analysis)
        /\ IsErrorMarker(sent[1].body.facial_analysis)
        /\ IsErrorMarker(sent[1].body.confidence_analysis)
        /\ sent[1].body.overall_score =
               [overall_score |-> Zero, component_scores |-> EmptyDict,
                grade |-> "F"]

C5_Witness ==
    /\ pc = "returned"
    /\ request.body = "ok"
    /\ sp.fault = "timeout"
    /\ fa.fault = "face_detection failed"
    /\ co.fault = "ZeroDivisionError"
    /\ Len(sent) = 1

\* C6: if the video source cannot be obtained at all, the caller receives a
\* single top-level error and no analysis result.
C6_SourceFailureIsFatal ==
    (pc = "returned" /\ request.method = "POST"
     /\ request.body = "missing_object") =>
        /\ Len(sent) = 1
        /\ sent[1].status = 500
        /\ IsErrorMarker(sent[1].body)

AtJoin == pc \in {"wait_speech", "wait_facial", "wait_confidence", "shutdown"}

AllBranchesDone == sp.pc = "done" /\ fa.pc = "done" /\ co.pc = "done"

OneAnalysisResult ==
    /\ pc = "returned"
    /\ Len(sent) = 1
    /\ sent[1].status = 200
    /\ Has(sent[1].body, "overall_score")

\* C7: every run of the pipeline hands exactly one analysis result to the
\* caller, never a second response, and does not stay at the join once all
\* three branches have completed or failed.
C7_ExactlyOneResult ==
    /\ [](Len(sent) <= 1)
    /\ [](pc = "submit_speech" => <>OneAnalysisResult)
    /\ []((AtJoin /\ AllBranchesDone) => <>(pc = "returned"))

C7_Witness ==
    /\ OneAnalysisResult
    /\ sp.fault = "timeout"
    /\ fa.fault = "download failed"
    /\ co.fault = ""

ShortSpeech == sp.pc = "done" /\ sp.fault = "" /\ sp.result.total_words < 2

\* C8: for fewer than 2 recognised words (none, or a single word of any
\* start_time and end_time) the speech analyzer reports total_duration = 0
\* and words_per_minute = 0.
C8_ShortSequenceIsZero ==
    ShortSpeech =>
        /\ sp.result.total_duration_seconds = 0
        /\ sp.result.words_per_minute = Zero

\* C9: for fewer than 11 words the pacing analysis is the insufficient-data
\* marker without numeric fields; numeric fields appear from 11 words on.
C9_PacingNeedsElevenWords ==
    (sp.pc = "done" /\ sp.fault = "") =>
        IF sp.result.total_words < 11
        THEN IsErrorMarker(sp.result.pacing_analysis)
        ELSE DOMAIN sp.result.pacing_analysis =
                 {"average_wpm", "wpm_standard_deviation",
                  "pacing_consistency", "wpm_timeline"}

\* a recognised word, freed of the punctuation around it, is letter for
\* letter a filler, whatever the case of each letter
Unpunctuated(raw) == str_strip(raw, Punctuation)

SameLetter(a, b) ==
    \/ a = b
    \/ \E i \in 1..Len(UpperChars) :
          {a, b} = {UpperChars[i], LowerChars[i]}

IsWholeWord(raw, filler) ==
    /\ Len(Unpunctuated(raw)) = Len(filler)
    /\ \A i \in 1..Len(filler) : SameLetter(Unpunctuated(raw)[i], filler[i])

WholeWordFillers(words, fillers) ==
    { i \in 1..Len(words) :
        \E f \in 1..Len(fillers) : IsWholeWord(words[i].word, fillers[f]) }

\* two consecutive recognised words that spell the filler "you know"
YouKnowPairs(words) ==
    { i \in 1..(Len(words) - 1) :
        /\ IsWholeWord(words[i].word, <<"y", "o", "u">>)
        /\ str_rstrip(words[i].word, Punctuation) = words[i].word
        /\ IsWholeWord(words[i + 1].word, <<"k", "n", "o", "w">>)
        /\ str_lstrip(words[i + 1].word, Punctuation) = words[i + 1].word }

SaysILikedIt ==
    /\ Len(AllWords(recognition)) = 3
    /\ AllWords(recognition)[1].word = <<"I">>
    /\ AllWords(recognition)[2].word = <<"l", "i", "k", "e", "d">>
    /\ AllWords(recognition)[3].word = <<"i", "t">>

\* C10: only whole words are counted as fillers and letter case does not
\* matter: filler_count is the number of recognised words that are a filler
\* letter for letter, a word that only contains a filler ("liked") is not
\* counted, and "I liked it" has filler_count = 0; the same holds of
\* count_filler_words over the transcript.
C10_WholeWordFillers ==
    /\ (sp.pc = "done" /\ sp.fault = "") =>
          /\ sp.result.filler_words.count =
                 Cardinality(WholeWordFillers(AllWords(recognition),
                                              FILLER_WORDS))
          /\ Len(sp.result.filler_words.details) = sp.result.filler_words.count
          /\ SaysILikedIt => sp.result.filler_words.count = 0
    /\ audio # Pending =>
          /\ audio.filler_word_count =
                 Cardinality(WholeWordFillers(AllWords(recognition),
                                              ANALYSIS_FILLER_WORDS))
                 + Cardinality(YouKnowPairs(AllWords(recognition)))
          /\ SaysILikedIt => audio.filler_word_count = 0

C10_Witness ==
    /\ sp.pc = "done"
    /\ sp.fault = ""
    /\ audio # Pending
    /\ Len(AllWords(recognition)) = 5
    /\ AllWords(recognition)[2].word = <<"l", "i", "k", "e", "d">>
    /\ AllWords(recognition)[5].word = <<"L", "I", "K", "E", ",">>
    /\ sp.result.filler_words.count = 2
    /\ audio.filler_word_count = 2


---------------------------------------------------------------------------
(* Filler percentage of the scenario transcript *)

ScenarioAnalysed ==
    recognition = ScenarioRecognition /\ sp.pc = "done" /\ sp.fault = ""

\* C11: for the transcript "um so I think uh I did well" the speech analyzer
\* reports filler count 3 and filler percentage 3/7 * 100.
C11_ScenarioFillerCount ==
    ScenarioAnalysed =>
        /\ sp.result.filler_words.count = 3
        /\ sp.result.filler_words.percentage = Rat(300, 7)


---------------------------------------------------------------------------
(* Clarity score *)

Returned155 ==
    /\ call # Pending /\ call.method = "calculate_clarity_score"
    /\ call.value # Pending
    /\ call.words_per_minute = Whole(ideal_wpm)

ClarityInUnitInterval ==
    (call # Pending /\ call.method = "calculate_clarity_score" /\ call.value # Pending) =>
        RGe(call.value, Zero) /\ RLe(call.value, One)

\* C12 as stated: the clarity score is in [0,1], and at 155 words per minute
\* it strictly decreases as the filler percentage increases over [0,100].
C12_ClarityStrictlyDecreasing ==
    /\ ClarityInUnitInterval
    /\ Returned155 =>
          \A q \in Percentages :
              RLt(call.filler_percentage, q) =>
                  RGt(call.value,
                      calculate_clarity_score(q, Whole(ideal_wpm)))

\* C12 (amended): the clarity score is in [0,1]; at 155 words per minute it
\* never increases with the filler percentage, strictly decreases while the
\* smaller percentage is below 20, and is 0.6 for every percentage from 20.
C12_ClarityDecreasingBelowTwenty ==
    /\ ClarityInUnitInterval
    /\ Returned155 =>
          /\ RGe(call.filler_percentage, Whole(20)) => call.value = Rat(6, 10)
          /\ \A q \in Percentages :
                RLt(call.filler_percentage, q) =>
                    IF RLt(call.filler_percentage, Whole(20))
                    THEN RGt(call.value,
                             calculate_clarity_score(q, Whole(ideal_wpm)))
                    ELSE call.value
                         = calculate_clarity_score(q, Whole(ideal_wpm))

C12_Witness ==
    /\ Returned155
    /\ call.filler_percentage = Whole(20)
    /\ call.value = Rat(6, 10)


---------------------------------------------------------------------------
(* Consistency *)

CoefficientOfVariationScore(values) ==
    IF Len(values) < 2 THEN Zero
    ELSE IF RSum(values) = Zero THEN Zero
    ELSE RMax(Zero, RSub(One, RDiv(np_std(values), RMean(values))))

ConsistencyReturned ==
    call # Pending /\ call.method = "calculate_consistency" /\ call.value # Pending

PacingReturned ==
    /\ call # Pending /\ call.method = "analyze_pacing_variations"
    /\ call.value # Pending
    /\ "pacing_consistency" \in DOMAIN call.value

\* C13: consistency is 0 for fewer than 2 samples or a mean of 0 and
\* max(0, 1 - std/mean) otherwise; the pacing consistency over the window
\* rates follows the same rule, 0 when their mean is 0.
C13_ConsistencyZeroRule ==
    /\ ConsistencyReturned =>
          call.value = CoefficientOfVariationScore(call.values)
    /\ PacingReturned =>
          /\ call.value.average_wpm = RMean(call.value.wpm_timeline)
          /\ call.value.pacing_consistency =
                IF call.value.average_wpm = Zero THEN Zero
                ELSE RMax(Zero,
                          RSub(One, RDiv(np_std(call.value.wpm_timeline),
                                         call.value.average_wpm)))

C13_Witness ==
    /\ ConsistencyReturned
    /\ Len(call.values) >= 2
    /\ RMean(call.values) = Zero
    /\ \E i \in 1..Len(call.values) : call.values[i] # Zero
    /\ call.value = Zero


---------------------------------------------------------------------------
(* Likelihood ladder *)

Ladder == << Zero, Rat(1, 10), Rat(3, 10), Rat(5, 10), Rat(7, 10), Rat(9, 10) >>

LikelihoodReturned ==
    call # Pending /\ call.method = "likelihood_to_score" /\ call.value # Pending

\* C14: levels 0..5 map to 0.0, 0.1, 0.3, 0.5, 0.7, 0.9, every other level
\* maps to 0.0, and the mapping does not decrease over levels 0..5.
C14_LikelihoodLadder ==
    LikelihoodReturned =>
        /\ call.value = IF call.likelihood \in 0..5
                        THEN Ladder[call.likelihood + 1] ELSE Zero
        /\ \A l \in 0..5 :
              l < call.likelihood /\ call.likelihood <= 5 =>
                  RLe(likelihood_to_score(l), call.value)

C14_Witness ==
    /\ LikelihoodReturned
    /\ call.likelihood > 5
    /\ call.value = Zero


---------------------------------------------------------------------------
(* Eye contact *)

EyeContactReturned ==
    call # Pending /\ call.method = "estimate_eye_contact" /\ call.value # Pending

\* ten times 0.6|pan| + 0.3|tilt| + 0.1|roll|
TenfoldDeviation(pan, tilt, roll) ==
    6 * AbsInt(pan) + 3 * AbsInt(tilt) + AbsInt(roll)

---------------------------------------------------------------------------
(* Range of the derived scores *)

InUnitInterval(x) == RGe(x, Zero) /\ RLe(x, One)

Succeeded(t) == t.pc = "done" /\ t.fault = ""

SpeechScoresInRange(r) ==
    /\ InUnitInterval(r.clarity_score)
    /\ "pacing_consistency" \in DOMAIN r.pacing_analysis =>
          InUnitInterval(r.pacing_analysis.pacing_consistency)

ConfidenceScoresInRange(r) ==
    /\ \A i \in 1..Len(r.head_pose_timeline) :
          InUnitInterval(r.head_pose_timeline[i].eye_contact_score)
    /\ InUnitInterval(r.average_eye_contact_score)
    /\ InUnitInterval(r.eye_contact_consistency)
    /\ InUnitInterval(r.head_stability_score)
    /\ InUnitInterval(r.confidence_score)

OverallScoresInRange(r) ==
    /\ InUnitInterval(r.overall_score)
    /\ \A k \in DOMAIN r.component_scores :
          InUnitInterval(r.component_scores[k])

---------------------------------------------------------------------------
(* Timelines *)

FacesSeen(frames_data, n) ==
    SelectSeq(SubSeq(frames_data, 1, n), HasFace)

NonDecreasing(timeline) ==
    \A i \in 1..Len(timeline), j \in 1..Len(timeline) :
        i < j => RLe(timeline[i].timestamp, timeline[j].timestamp)

EmotionTimelineOf(frames_data, n) ==
    [i \in 1..Len(FacesSeen(frames_data, n)) |->
        EmotionFrame(FacesSeen(frames_data, n)[i].timestamp,
                     FacesSeen(frames_data, n)[i].image[1])]

HeadPoseTimelineOf(frames_data, n) ==
    [i \in 1..Len(FacesSeen(frames_data, n)) |->
        HeadPoseFrame(FacesSeen(frames_data, n)[i].timestamp,
                      FacesSeen(frames_data, n)[i].image[1])]

\* C17: the emotion timeline and the head-pose timeline hold one entry, made
\* from the first detected face, for each sampled frame with a face, none
\* for a frame without a face, in sampling order with timestamps that never
\* decrease; this holds after every frame of the loop and in the result.
C17_TimelinePerFaceFrame ==
    /\ fa.pc = "detect" =>
          fa.emotion_timeline = EmotionTimelineOf(fa.frames_data, fa.i - 1)
    /\ Succeeded(fa) =>
          /\ fa.result.emotion_timeline
               = EmotionTimelineOf(fa.frames_data, Len(fa.frames_data))
          /\ NonDecreasing(fa.result.emotion_timeline)
    /\ co.pc = "detect" =>
          co.head_pose_timeline = HeadPoseTimelineOf(co.frames_data, co.i - 1)
    /\ Succeeded(co) =>
          /\ co.result.head_pose_timeline
               = HeadPoseTimelineOf(co.frames_data, Len(co.frames_data))
          /\ NonDecreasing(co.result.head_pose_timeline)

C17_Witness ==
    /\ Succeeded(fa)
    /\ Succeeded(co)
    /\ Len(co.frames_data) = 2
    /\ \E i \in 1..2 : co.frames_data[i].image = <<>>
    /\ \E i \in 1..2 : Len(co.frames_data[i].image) = 2
    /\ Len(co.result.head_pose_timeline) = 1
    /\ Len(fa.result.emotion_timeline) = 1


---------------------------------------------------------------------------
(* Frame sampling *)

ExtractReturned ==
    call # Pending /\ call.method = "extract_video_frames" /\ call.value # Pending

\* round(num / den) for num >= 0, den > 0, halves going to the even integer
RoundedQuotient(num, den) ==
    LET q == num \div den
        r == num % den
    IN  IF 2 * r < den THEN q
        ELSE IF 2 * r > den THEN q + 1
        ELSE IF q % 2 = 0 THEN q ELSE q + 1

RoundedStride(v, interval_seconds) ==
    RoundedQuotient(v.fps * interval_seconds.n, 100 * interval_seconds.d)

EveryStrideth(v, stride) ==
    LET picked == { k \in 0..(Len(v.frames) - 1) : k % stride = 0 }
        nth(i) == CHOOSE k \in picked :
                      Cardinality({ j \in picked : j < k }) = i - 1
    IN  [i \in 1..Cardinality(picked) |->
            [timestamp |-> Rat(nth(i) * 100, v.fps),
             image |-> v.frames[nth(i) + 1],
             frame_number |-> nth(i)]]

\* C18: the stride of the frame sampler is round(frame_rate * interval), and
\* the sampler emits exactly the decoded frames whose index is a multiple
\* of that stride, each with timestamp index / frame_rate.
C18_StrideIsRounded ==
    (ExtractReturned
     /\ RoundedStride(call.video_path, call.interval_seconds) > 0) =>
        /\ "frames" \in DOMAIN call.value
        /\ call.value.frames
             = EveryStrideth(call.video_path,
                             RoundedStride(call.video_path,
                                           call.interval_seconds))


\* C19: with a frame rate of zero (or unreadable, which reads as zero) the
\* sampler fails and returns no frame sequence, whatever the source holds,
\* and the branch that sampled ends with an error marker.
C19_ZeroRateFails ==
    /\ (ExtractReturned /\ call.video_path.fps = 0) =>
          "raised" \in DOMAIN call.value
    /\ (video.fps = 0 /\ fa.pc = "done") => IsErrorMarker(fa.result)
    /\ (video.fps = 0 /\ co.pc = "done") => IsErrorMarker(co.result)


---------------------------------------------------------------------------
(* Emotion statistics *)

\* the emotions an EmotionFrame carries
EmotionSet ==
    {"joy", "sorrow", "anger", "surprise", "under_exposed", "blurred",
     "headwear"}

\* C20: with an empty emotion timeline the facial branch succeeds with empty
\* statistics and average_detection_confidence 0; with a non-empty one the
\* statistics hold, for each emotion of the emotion set, an average, a max
\* and a min with min <= average <= max.
C20_EmotionStatistics ==
    Succeeded(fa) =>
        IF fa.result.emotion_timeline = <<>>
        THEN /\ fa.result.emotion_statistics = EmptyDict
             /\ fa.result.average_detection_confidence = Zero
        ELSE /\ DOMAIN fa.result.emotion_statistics = EmotionSet
             /\ \A e \in EmotionSet :
                   /\ RLe(fa.result.emotion_statistics[e].min,
                          fa.result.emotion_statistics[e].average)
                   /\ RLe(fa.result.emotion_statistics[e].average,
                          fa.result.emotion_statistics[e].max)

---------------------------------------------------------------------------
(* C21: the branches share no file, frame list or accumulator *)

\* a step of the task leaves every file but the task's own as it was
OwnFileOnly(t, tNext) ==
    \A f \in (DOMAIN tempFiles \cup DOMAIN tempFiles') \ {t.temp, tNext.temp} :
        /\ f \in DOMAIN tempFiles
        /\ f \in DOMAIN tempFiles'
        /\ tempFiles'[f] = tempFiles[f]

HoldsCopy(t) == t.pc \in {"extract", "detect"}

SeparateCopies ==
    /\ (HoldsCopy(fa) /\ HoldsCopy(co)) => fa.temp # co.temp
    /\ HoldsCopy(fa) => (fa.temp \in DOMAIN tempFiles /\ tempFiles[fa.temp] = "video")
    /\ HoldsCopy(co) => (co.temp \in DOMAIN tempFiles /\ tempFiles[co.temp] = "video")
    /\ fa.pc = "detect" =>
          fa.frames_data = extract_video_frames(video, One).frames
    /\ co.pc = "detect" =>
          co.frames_data = extract_video_frames(video, Rat(1, 2)).frames

SeparateSteps ==
    /\ fa' # fa => (co' = co /\ sp' = sp /\ OwnFileOnly(fa, fa'))
    /\ co' # co => (fa' = fa /\ sp' = sp /\ OwnFileOnly(co, co'))
    /\ tempFiles' # tempFiles => (fa' # fa \/ co' # co)

\* C21: in every interleaving the two vision branches hold differently
\* named temporary copies, each decodes exactly the frames its own sampling
\* of the video gives, and a step of one branch changes neither another
\* branch's frame list and accumulators nor any file but its own copy.
C21_NoSharedState == []SeparateCopies /\ [][SeparateSteps]_vars

C21_Witness ==
    /\ fa.pc = "detect" /\ co.pc = "detect"
    /\ fa.temp \in DOMAIN tempFiles /\ co.temp \in DOMAIN tempFiles
    /\ fa.temp # co.temp
    /\ fa.frames_data # <<>> /\ co.frames_data # <<>>
    /\ fa.emotion_timeline # <<>> /\ co.head_pose_timeline # <<>>

---------------------------------------------------------------------------
(* C22: insufficient data is reported inside a successful result *)

InsufficientData == ErrorMarker("Insufficient data for pacing analysis")

TooFewWords == Succeeded(sp) /\ Len(sp.word_timestamps) < PacingThreshold

TooFewSamples == Succeeded(co) /\ Len(co.eye_contact_estimates) < 2

\* C22: a speech branch that read fewer words than pacing analysis needs
\* returns a result, not an error marker, whose pacing_analysis is the
\* insufficient-data marker and whose clarity_score the aggregator counts as
\* speech_clarity; a confidence branch with fewer than 2 eye-contact samples
\* returns a result, not an error marker, with eye_contact_consistency = 0.
C22_InsufficientDataIsSentinel ==
    /\ TooFewWords =>
          /\ ~IsErrorMarker(sp.result)
          /\ Has(sp.result, "pacing_analysis")
          /\ sp.result.pacing_analysis = InsufficientData
          /\ Has(sp.result, "clarity_score")
    /\ (TooFewWords /\ overall # Pending) =>
          /\ Has(overall.component_scores, "speech_clarity")
          /\ overall.component_scores.speech_clarity = sp.result.clarity_score
    /\ TooFewSamples =>
          /\ ~IsErrorMarker(co.result)
          /\ Has(co.result, "eye_contact_consistency")
          /\ co.result.eye_contact_consistency = Zero
          /\ Has(co.result, "confidence_score")

C22_Witness ==
    /\ pc = "returned"
    /\ TooFewWords /\ sp.word_timestamps # <<>>
    /\ TooFewSamples /\ Len(co.eye_contact_estimates) = 1
    /\ Has(overall.component_scores, "speech_clarity")
    /\ Has(overall.component_scores, "confidence")

---------------------------------------------------------------------------
(* C23: words per minute *)

SpokenWords == AllWords(recognition)

\* last end_time minus first start_time of the recognized words
SpokenSpan ==
    IF SpokenWords = <<>> THEN 0
    ELSE SpokenWords[Len(SpokenWords)].end_time - SpokenWords[1].start_time

\* C23: a speech branch whose transcription returned gives words_per_minute
\* = word_count / total_duration * 60 when total_duration > 0 and 0 when
\* total_duration <= 0 (a last end_time before the first start_time
\* included); the rate is never negative and the branch returns a result,
\* not an error marker.
C23_WordsPerMinute ==
    Succeeded(sp) =>
        /\ ~IsErrorMarker(sp.result)
        /\ Has(sp.result, "words_per_minute")
        /\ sp.result.total_duration_seconds = SpokenSpan
        /\ sp.result.total_words = Len(SpokenWords)
        /\ SpokenSpan > 0 =>
              sp.result.words_per_minute
                  = Rat(60 * Len(SpokenWords), SpokenSpan)
        /\ SpokenSpan <= 0 => sp.result.words_per_minute = Zero
        /\ RGe(sp.result.words_per_minute, Zero)

C23_Witness ==
    /\ Succeeded(sp)
    /\ SpokenSpan < 0
    /\ Len(SpokenWords) > 2
    /\ sp.result.words_per_minute = Zero

C23_WitnessPositive ==
    /\ Succeeded(sp)
    /\ SpokenSpan > 1
    /\ RGt(sp.result.words_per_minute, Whole(60))

---------------------------------------------------------------------------
(* C24: the confidence score *)

\* the eye_contact_score of every frame of a head-pose timeline, in order
EyeContactScores(timeline) ==
    [i \in 1..Len(timeline) |-> timeline[i].eye_contact_score]

MeanOrZero(values) == IF values = <<>> THEN Zero ELSE RMean(values)

\* C24: a confidence branch that succeeds has one head-pose entry per
\* sampled frame with a detected face, average_eye_contact is the mean of
\* the entries' eye_contact_scores (0 without entries), and 10 times the
\* confidence_score is 5 average_eye_contact + 3 eye_contact_consistency
\* + 2 head_stability.
C24_ConfidenceScore ==
    Succeeded(co) =>
        /\ Has(co.result, "confidence_score")
        /\ Len(co.result.head_pose_timeline)
              = Len(SelectSeq(co.frames_data, HasFace))
        /\ co.result.average_eye_contact_score
              = MeanOrZero(EyeContactScores(co.result.head_pose_timeline))
        /\ RMul(Whole(10), co.result.confidence_score)
              = RAdd(RMul(Whole(5), co.result.average_eye_contact_score),
                     RAdd(RMul(Whole(3), co.result.eye_contact_consistency),
                          RMul(Whole(2), co.result.head_stability_score)))

C24_Witness ==
    /\ Succeeded(co)
    /\ Len(co.result.head_pose_timeline) = 2
    /\ RGt(co.result.eye_contact_consistency, Zero)
    /\ RLt(co.result.eye_contact_consistency, One)
    /\ RLt(co.result.head_stability_score, One)
    /\ RLt(co.result.average_eye_contact_score, One)

---------------------------------------------------------------------------
(* C25: every entry of the filler set is counted *)

\* occurrences of an entry of the filler set as whole word(s): the single
\* words that are an entry, and the pairs that spell "you know"
FillerOccurrences(words) ==
    Cardinality(WholeWordFillers(words, FILLER_WORDS))
    + Cardinality(YouKnowPairs(words))

SaysYouKnow ==
    \E i \in 1..(Len(SpokenWords) - 1) :
        /\ SpokenWords[i].word = <<"y", "o", "u">>
        /\ SpokenWords[i + 1].word = <<"k", "n", "o", "w">>

\* C25: the filler count of a speech branch that succeeds is the number of
\* occurrences of the entries of FILLER_WORDS as whole words, "you know"
\* included; filler_percentage = filler_count / word_count * 100 (0 without
\* words), filler_count <= word_count and 0 <= filler_percentage <= 100.
C25_EveryFillerCounted ==
    Succeeded(sp) =>
        /\ sp.result.filler_words.count = FillerOccurrences(SpokenWords)
        /\ sp.result.filler_words.count <= sp.result.total_words
        /\ sp.result.filler_words.percentage
              = (IF sp.result.total_words = 0 THEN Zero
                 ELSE Rat(100 * sp.result.filler_words.count,
                          sp.result.total_words))
        /\ RGe(sp.result.filler_words.percentage, Zero)
        /\ RLe(sp.result.filler_words.percentage, Whole(100))

\* the part of C25 the branch does satisfy: percentage and bounds
C25_PercentageOfCounted ==
    Succeeded(sp) =>
        /\ sp.result.filler_words.count <= sp.result.total_words
        /\ sp.result.filler_words.percentage
              = (IF sp.result.total_words = 0 THEN Zero
                 ELSE Rat(100 * sp.result.filler_words.count,
                          sp.result.total_words))
        /\ RLe(sp.result.filler_words.percentage, Whole(100))
        /\ SaysYouKnow =>
              sp.result.filler_words.count
                  = Cardinality(WholeWordFillers(SpokenWords, FILLER_WORDS))

---------------------------------------------------------------------------
(* C26: the sliding windows of the pacing analysis *)

PacingComputed ==
    /\ Succeeded(sp)
    /\ Has(sp.result.pacing_analysis, "wpm_timeline")

\* first start_time to last end_time of the 10 words from word i on
WindowSpan(i) == SpokenWords[i + 9].end_time - SpokenWords[i].start_time

\* C26: when the pacing analysis is computed for n words, wpm_timeline has
\* n - 9 values, the i-th being 10 / span * 60 for the span of words i to
\* i + 9 (first start_time to last end_time) and 0 when that span is <= 0,
\* and average_wpm is the mean of the values.
C26_SlidingWindows ==
    PacingComputed =>
        LET pacing == sp.result.pacing_analysis
            n == Len(SpokenWords)
        IN  /\ n >= 10
            /\ Len(pacing.wpm_timeline) = n - 9
            /\ \A i \in 1..(n - 9) :
                  pacing.wpm_timeline[i]
                      = (IF WindowSpan(i) > 0 THEN Rat(600, WindowSpan(i))
                         ELSE Zero)
            /\ RMul(pacing.average_wpm, Whole(n - 9))
                  = RSum(pacing.wpm_timeline)

C26_Witness ==
    /\ PacingComputed
    /\ Len(SpokenWords) = 12
    /\ Len(sp.result.pacing_analysis.wpm_timeline) = 3
    /\ WindowSpan(1) = 10
    /\ sp.result.pacing_analysis.average_wpm = Whole(60)

C26_WitnessNoSpan ==
    /\ PacingComputed
    /\ Len(SpokenWords) = 11
    /\ WindowSpan(2) < 0
    /\ sp.result.pacing_analysis.average_wpm = Zero

---------------------------------------------------------------------------
(* C27: vision branches that saw no face *)

NoFaceSeen ==
    /\ Succeeded(fa) /\ fa.emotion_timeline = <<>>
    /\ Succeeded(co) /\ co.head_pose_timeline = <<>>

\* C27: when both vision branches succeed without a detected face in any
\* sampled frame, component_scores has neither positivity nor confidence,
\* and overall_score is the speech component alone.
C27_FacelessBranchesAlike ==
    (NoFaceSeen /\ overall # Pending) =>
        /\ ~Has(overall.component_scores, "positivity")
        /\ ~Has(overall.component_scores, "confidence")
        /\ Succeeded(sp) => overall.overall_score = sp.result.clarity_score

\* what the aggregator does with face-less branches: no positivity, and a
\* confidence component of 0
C27_FacelessConfidenceCounted ==
    (NoFaceSeen /\ overall # Pending) =>
        /\ ~Has(overall.component_scores, "positivity")
        /\ Has(overall.component_scores, "confidence")
        /\ overall.component_scores.confidence = Zero

---------------------------------------------------------------------------
(* C28: temporary files *)

NoFileYet(t) == t.temp = ""

\* C28: once a vision branch has completed, the temporary file it created
\* is gone, whether the branch returned a result or an error marker, and
\* no temporary file is left when both branches have completed.
C28_TempFilesDeleted ==
    /\ (fa.pc = "done" /\ NoFileYet(co)) => DOMAIN tempFiles = {}
    /\ (co.pc = "done" /\ NoFileYet(fa)) => DOMAIN tempFiles = {}
    /\ (fa.pc = "done" /\ co.pc = "done") => DOMAIN tempFiles = {}

\* the path on which the file is deleted: both branches return a result
C28_DeletedOnSuccess ==
    /\ (Succeeded(fa) /\ NoFileYet(co)) => DOMAIN tempFiles = {}
    /\ (Succeeded(co) /\ NoFileYet(fa)) => DOMAIN tempFiles = {}
    /\ (Succeeded(fa) /\ Succeeded(co)) => DOMAIN tempFiles = {}

\* a failure of frame sampling or of a detection call leaves the downloaded
\* copy behind
C28_LeftAfterDetectionFailure ==
    /\ (fa.pc = "done" /\ fa.fault \in {"face_detection failed", "ZeroDivisionError"})
          => fa.temp \in DOMAIN tempFiles
    /\ (co.pc = "done" /\ co.fault \in {"face_detection failed", "ZeroDivisionError"})
          => co.temp \in DOMAIN tempFiles

---------------------------------------------------------------------------
(* C29: the fused result does not depend on the schedule *)

Fused == pc \in {"respond", "returned"} /\ overall # Pending

\* what a branch returns is fixed by the input and by the failure it met
OutcomeOf(t, expected) ==
    IF t.fault # "" THEN ErrorMarker(t.fault) ELSE expected

\* C29: whatever the order in which the branches started and finished, the
\* speech, facial and confidence slots hold the outcome of the speech, the
\* facial and the confidence branch respectively, and overall_score,
\* component_scores and grade are those calculate_overall_score gives for
\* the three outcomes.
C29_ScheduleIndependent ==
    Fused =>
        /\ joined.speech_analysis = OutcomeOf(sp, ExpectedSpeech)
        /\ joined.facial_analysis = OutcomeOf(fa, ExpectedFacial)
        /\ joined.confidence_analysis = OutcomeOf(co, ExpectedConfidence)
        /\ overall = calculate_overall_score(OutcomeOf(sp, ExpectedSpeech),
                                             OutcomeOf(fa, ExpectedFacial),
                                             OutcomeOf(co, ExpectedConfidence))
        /\ pc = "returned" =>
              /\ Len(sent) = 1
              /\ sent[1].body.overall_score = overall
              /\ sent[1].body.speech_analysis = joined.speech_analysis
              /\ sent[1].body.facial_analysis = joined.facial_analysis
              /\ sent[1].body.confidence_analysis = joined.confidence_analysis

C29_Witness ==
    /\ pc = "returned"
    /\ overall # Pending
    /\ Succeeded(sp) /\ Succeeded(fa) /\ Succeeded(co)
    /\ DOMAIN overall.component_scores
          = {"speech_clarity", "positivity", "confidence"}
    /\ joined.speech_analysis # joined.facial_analysis
    /\ joined.facial_analysis # joined.confidence_analysis

---------------------------------------------------------------------------
(* C30: a transcription without words *)

NoWordRecognized == Succeeded(sp) /\ SpokenWords = <<>>

\* C30: a speech branch whose transcription returned no word returns a
\* result, not an error marker, with total_words, total_duration,
\* words_per_minute, filler count and filler percentage all 0, the
\* insufficient-data marker as pacing_analysis and clarity_score = 0.4, and
\* the aggregator counts that 0.4 as the speech component.
C30_EmptyTranscription ==
    NoWordRecognized =>
        /\ ~IsErrorMarker(sp.result)
        /\ Has(sp.result, "clarity_score")
        /\ sp.result.total_words = 0
        /\ sp.result.total_duration_seconds = 0
        /\ sp.result.words_per_minute = Zero
        /\ sp.result.filler_words.count = 0
        /\ sp.result.filler_words.percentage = Zero
        /\ sp.result.filler_words.details = <<>>
        /\ sp.result.pacing_analysis = InsufficientData
        /\ sp.result.clarity_score = Rat(4, 10)
        /\ overall # Pending =>
              /\ Has(overall.component_scores, "speech_clarity")
              /\ overall.component_scores.speech_clarity = Rat(4, 10)

C30_Witness ==
    /\ NoWordRecognized
    /\ pc = "returned"
    /\ Len(sent) = 1
    /\ sent[1].body.overall_score.component_scores.speech_clarity = Rat(4, 10)
    /\ Has(overall.component_scores, "positivity")

===========================================================================
